---- MODULE Spec2Model ----
(***************************************************************************)
(* A model of the blog-post indexing job: the submission engine            *)
(* (src/src/indexing.py), the CSV state store (src/src/csv_manager.py)     *)
(* the sitemap reader (src/src/sitemap.py) and the orchestrator            *)
(* (src/main.py).                                                          *)
(*                                                                         *)
(* URLs are natural numbers: k stands for "https://blog/k", and 0 stands   *)
(* for the empty string ''.  Timestamps are readings of a clock that the   *)
(* store operations advance.                                               *)
(***************************************************************************)
EXTENDS Integers, Sequences, FiniteSets, TLC

VARIABLES
    mode,            \* which part of the program this behaviour exercises
    \* ---- submit_urls (src/src/indexing.py) ----
    pc,              \* position of the submit_urls call
    urls,            \* argument urls
    max_retry,       \* argument max_retry
    attempt,         \* local attempt
    urls_to_retry,   \* local urls_to_retry
    final_results,   \* local final_results: url -> <<success, error, attempt>>
    batch_urls,      \* argument of the last _execute_batch_request
    batch_results,   \* its return value, in insertion order
    calls,           \* every invocation of callback, in order
    n_requests,      \* number of _execute_batch_request calls so far
    n_sleeps,        \* number of time.sleep(retry_delay) calls so far
    last_event,      \* the last thing the call did: "request", "sleep", ...
    \* ---- the state store (src/src/csv_manager.py) ----
    csv,             \* the durable file [exists, rows] and its I/O conditions
    clock,           \* datetime.now(), advanced by every store call
    last_op,         \* the last store call: name, arguments, return value, I/O
    \* ---- step5_submit_urls (src/main.py) ----
    daily_limit,     \* config['daily_limit']
    pending_urls,    \* local pending_urls
    chunk_i,         \* loop variable i
    success_count,   \* local success_count
    fail_count,      \* local fail_count
    processed,       \* local processed
    table0,          \* the table as step 5 found it
    submitted,       \* the batch_urls of every submit_urls call, in order
    \* ---- main (src/main.py) ----
    main_urls,       \* local urls of main: what step 2 returned
    exit_code,       \* the exit status of the process; -1 while it runs
    summary,         \* print_result_summary has been called in this run
    run_no,          \* how many times the program has been started
    \* ---- several processes of the program on one file ----
    inst             \* per process: its position, the table it loaded, ...

engine_vars == <<pc, urls, max_retry, attempt, urls_to_retry, final_results,
                 batch_urls, batch_results, calls, n_requests, n_sleeps,
                 last_event>>

store_vars == <<csv, clock, last_op>>

run_vars == <<daily_limit, pending_urls, chunk_i, success_count, fail_count,
              processed, table0, submitted>>

main_vars == <<main_urls, exit_code, summary, run_no>>

vars == <<mode, engine_vars, store_vars, run_vars, main_vars, inst>>

----------------------------------------------------------------------------
(* Bounds of the model *)

MaxUrls == 3
MaxRetry == 2
MaxStoreUrls == 2
MaxBatch == 2
MaxClock == 2
MaxLimit == 1
MaxPending == 2
MaxDaily == 3
MaxRunUrls == 2
MaxFaultyCalls == 1
MaxRoom == 1
MaxMixed == 1
MaxChildren == 2
MaxEntries == 2
MaxRuns == 2
MaxSort == 3
MaxInstances == 2

(* Program constants *)

BatchLimit == 100
BatchSize == 100
DefaultMaxRetry == 3
DefaultDailyLimit == 200

----------------------------------------------------------------------------
(* Helpers on sequences *)

Iota(n) == [i \in 1..n |-> i]

Range(s) == {s[i] : i \in DOMAIN s}

Reverse(s) == [i \in 1..Len(s) |-> s[Len(s) + 1 - i]]

IsDistinct(s) == \A i, j \in DOMAIN s : s[i] = s[j] => i = j

(* A Python dict as the sequence of its <<key, value>> items in insertion  *)
(* order: assigning to a present key keeps its position.                   *)

Keys(d) == {d[i][1] : i \in DOMAIN d}

Get(d, k) == LET i == CHOOSE i \in DOMAIN d : d[i][1] = k IN d[i][2]

DictSet(d, k, v) ==
    IF k \in Keys(d)
    THEN [i \in DOMAIN d |-> IF d[i][1] = k THEN <<k, v>> ELSE d[i]]
    ELSE Append(d, <<k, v>>)

(* step5_submit_urls before it is called *)
RunIdle ==
    /\ daily_limit = 0
    /\ pending_urls = <<>>
    /\ chunk_i = 0
    /\ success_count = 0
    /\ fail_count = 0
    /\ processed = 0
    /\ table0 = <<>>
    /\ submitted = <<>>

(* main before the program is started *)
MainIdle ==
    /\ main_urls = <<>>
    /\ exit_code = -1
    /\ summary = FALSE
    /\ run_no = 0

----------------------------------------------------------------------------
(* The state store.  A row is a record with the CSV_HEADERS fields; the    *)
(* file holds every value as text, so retry_count is a decimal string,     *)
(* here the sequence of its digits.                                        *)

STATUS_PENDING == "PENDING"
STATUS_SUCCESS == "SUCCESS"
STATUS_FAILED == "FAILED"

(* The file and what the operating system lets a call do with it:          *)
(*   readable  open(csv_path, 'r') and the parse succeed;                  *)
(*   writable  "yes":    open(csv_path, 'w') and every write succeed;      *)
(*             "no":     ensure_data_directory or open(csv_path, 'w')      *)
(*                       raises (no permission, path is a directory);      *)
(*             "partly": open(csv_path, 'w') succeeds and the header and   *)
(*                       the first `room` rows are written, then a write   *)
(*                       raises (the disk is full).                        *)
NoFile ==
    [exists |-> FALSE, rows |-> <<>>, readable |-> TRUE, writable |-> "yes", room |-> 0]

NoOp ==
    [name |-> "none", args |-> <<>>, ret |-> <<>>, reads |-> 0, writes |-> 0,
     raised |-> "none"]

(* str(n) for n >= 0 *)
RECURSIVE str(_)
str(n) == IF n < 10 THEN <<n>> ELSE Append(str(n \div 10), n % 10)

(* int(s) for a string of decimal digits *)
RECURSIVE int(_)
int(s) ==
    IF Len(s) = 1 THEN s[1]
    ELSE 10 * int(SubSeq(s, 1, Len(s) - 1)) + s[Len(s)]

(* read_csv: the rows of the file; [] when there is no file, and [] when   *)
(* opening or parsing it raises (except Exception).                        *)
read_csv(file) ==
    IF ~file.exists THEN <<>>
    ELSE IF file.readable THEN file.rows
    ELSE <<>>

(* A row as DictWriter(fieldnames=CSV_HEADERS) writes it and DictReader    *)
(* reads it back: a column the row has no key for is written as ''.        *)
(* (Every row of the model has the other five columns.)                    *)
written_row(row) ==
    IF "url" \in DOMAIN row THEN row
    ELSE [url |-> 0, status |-> row.status, lastmod |-> row.lastmod,
          created_at |-> row.created_at, updated_at |-> row.updated_at,
          retry_count |-> row.retry_count]

(* write_csv: [file, ok], the file it leaves and its return value.         *)
(* open(csv_path, 'w') empties the file before anything is written, so a   *)
(* write that raises after the open leaves the rows written until then.    *)
write_csv(file, data) ==
    IF file.writable = "no"
    THEN [file |-> file, ok |-> FALSE]
    ELSE IF file.writable = "partly" /\ Len(data) > file.room
    THEN [file |-> [file EXCEPT !.exists = TRUE, !.readable = TRUE,
                                !.rows = [i \in 1..file.room |-> written_row(data[i])]],
          ok |-> FALSE]
    ELSE [file |-> [file EXCEPT !.exists = TRUE, !.readable = TRUE,
                                !.rows = [i \in DOMAIN data |-> written_row(data[i])]],
          ok |-> TRUE]

new_row(url, lastmod, now) ==
    [url |-> url, status |-> STATUS_PENDING, lastmod |-> lastmod,
     created_at |-> now, updated_at |-> now, retry_count |-> str(0)]

(* What a store call leaves behind: the file, the return value and the     *)
(* numbers of read_csv and write_csv calls it made.                        *)
Outcome(file, ret, reads, writes) ==
    [file |-> file, ret |-> ret, reads |-> reads, writes |-> writes,
     raised |-> "none"]

(* A store call that ends with an exception leaving it *)
Raises(file, exception, reads, writes) ==
    [file |-> file, ret |-> <<>>, reads |-> reads, writes |-> writes,
     raised |-> exception]

(* row['url'] raises KeyError for a row read from a file without that      *)
(* column; the loops meet the rows in order.                               *)
HasUrl(row) == "url" \in DOMAIN row

(* int(s) raises ValueError unless s is a decimal numeral *)
IsDecimal(s) == s # <<>> /\ \A i \in DOMAIN s : s[i] \in 0..9

(* "for row in data: if row['url'] == url": the index of the row at which  *)
(* the loop stops, the first row with this url or without a 'url' key;     *)
(* 0 when it runs to the end.                                              *)
find_row(data, url) ==
    LET Stops(i) == ~HasUrl(data[i]) \/ data[i].url = url
    IN IF \E i \in DOMAIN data : Stops(i)
       THEN CHOOSE i \in DOMAIN data : Stops(i) /\ \A j \in 1..(i - 1) : ~Stops(j)
       ELSE 0

add_url(file, url, lastmod, now) ==
    LET data == read_csv(file)
        i == find_row(data, url)
    IN IF i = 0
       THEN LET w == write_csv(file, Append(data, new_row(url, lastmod, now)))
            IN Outcome(w.file, w.ok, 1, 1)
       ELSE IF ~HasUrl(data[i])
       THEN Raises(file, "KeyError", 1, 0)
       ELSE Outcome(file, FALSE, 1, 0)

(* Mutant of updated_row: the retry count grows whether asked for or not.  *)
updated_row_AlwaysIncrement(row, status, increment_retry, now) ==
    [row EXCEPT !.status = status,
                !.updated_at = now,
                !.retry_count = str(int(@) + 1)]

(* Mutant of updated_row: an update that does not ask for the increment    *)
(* starts the retry count again.                                           *)
updated_row_ResetRetry(row, status, increment_retry, now) ==
    [row EXCEPT !.status = status,
                !.updated_at = now,
                !.retry_count = IF increment_retry THEN str(int(@) + 1) ELSE str(0)]

(* Mutant of updated_row: FAILED is written in lower case.                 *)
updated_row_LowerCase(row, status, increment_retry, now) ==
    [row EXCEPT !.status = IF status = "FAILED" THEN "failed" ELSE status,
                !.updated_at = now,
                !.retry_count = IF increment_retry THEN str(int(@) + 1) ELSE @]

(* The row update of update_url_status *)
updated_row(row, status, increment_retry, now) ==
    [row EXCEPT !.status = status,
                !.updated_at = now,
                !.retry_count = IF increment_retry THEN str(int(@) + 1) ELSE @]

(* What update_url_status does once it has updated row i in memory *)
save_updated(file, data, i, status, increment_retry, now) ==
    IF ~HasUrl(data[i])
    THEN Raises(file, "KeyError", 1, 0)
    ELSE IF increment_retry /\ ~IsDecimal(data[i].retry_count)
    THEN Raises(file, "ValueError", 1, 0)
    ELSE LET w == write_csv(file,
                    [data EXCEPT ![i] = updated_row(@, status, increment_retry, now)])
         IN Outcome(w.file, w.ok, 1, 1)

(* Mutant of update_url_status: a URL that is not found is inserted.       *)
update_url_status_Upsert(file, url, status, increment_retry, now) ==
    LET data == read_csv(file)
        i == find_row(data, url)
    IN IF i = 0
       THEN LET w == write_csv(file, Append(data,
                        [new_row(url, "", now) EXCEPT !.status = status]))
            IN Outcome(w.file, w.ok, 1, 1)
       ELSE save_updated(file, data, i, status, increment_retry, now)

update_url_status(file, url, status, increment_retry, now) ==
    LET data == read_csv(file)
        i == find_row(data, url)
    IN IF i = 0
       THEN Outcome(file, FALSE, 1, 0)
       ELSE save_updated(file, data, i, status, increment_retry, now)

(* Mutants of add_candidate: a URL added earlier in the same batch is not  *)
(* remembered; a re-discovered URL is reset to a fresh PENDING row.        *)
add_candidate_Forgetful(st, url_info, now) ==
    IF url_info.loc = 0 \/ url_info.loc \in st.existing_urls
    THEN st
    ELSE [st EXCEPT !.data = Append(@, new_row(url_info.loc, url_info.lastmod, now)),
                    !.added_count = @ + 1]

add_candidate_Reset(st, url_info, now) ==
    IF url_info.loc = 0
    THEN st
    ELSE IF url_info.loc \in st.existing_urls
    THEN [st EXCEPT !.data = [i \in DOMAIN @ |->
                                IF @[i].url = url_info.loc
                                THEN new_row(url_info.loc, url_info.lastmod, now)
                                ELSE @[i]],
                    !.added_count = @ + 1]
    ELSE [st EXCEPT !.data = Append(@, new_row(url_info.loc, url_info.lastmod, now)),
                    !.existing_urls = @ \cup {url_info.loc},
                    !.added_count = @ + 1]

(* One pass of "for url_info in urls" in add_urls_batch:                   *)
(* st = [data, existing_urls, added_count].                                *)
add_candidate(st, url_info, now) ==
    IF url_info.loc = 0 \/ url_info.loc \in st.existing_urls
    THEN st
    ELSE [st EXCEPT !.data = Append(@, new_row(url_info.loc, url_info.lastmod, now)),
                    !.existing_urls = @ \cup {url_info.loc},
                    !.added_count = @ + 1]

RECURSIVE add_candidates(_, _, _, _)
add_candidates(st, candidates, i, now) ==
    IF i > Len(candidates) THEN st
    ELSE add_candidates(add_candidate(st, candidates[i], now), candidates, i + 1, now)

(* Mutant of add_urls_batch: existing_urls is not filled from the file.    *)
add_urls_batch_NoExisting(file, candidates, now) ==
    LET data == read_csv(file)
        st == add_candidates([data |-> data,
                              existing_urls |-> {},
                              added_count |-> 0], candidates, 1, now)
    IN IF \E i \in DOMAIN data : ~HasUrl(data[i])
       THEN Raises(file, "KeyError", 1, 0)
       ELSE IF st.added_count > 0
       THEN Outcome(write_csv(file, st.data).file, st.added_count, 1, 1)
       ELSE Outcome(file, st.added_count, 1, 0)

(* Mutant of add_urls_batch: the file is loaded for every candidate and    *)
(* saved after every record added.                                         *)
add_urls_batch_SaveEach(file, candidates, now) ==
    LET data == read_csv(file)
        st == add_candidates([data |-> data,
                              existing_urls |-> {data[i].url : i \in DOMAIN data},
                              added_count |-> 0], candidates, 1, now)
    IN IF \E i \in DOMAIN data : ~HasUrl(data[i])
       THEN Raises(file, "KeyError", 1, 0)
       ELSE IF st.added_count > 0
       THEN Outcome(write_csv(file, st.data).file, st.added_count,
                    Len(candidates), st.added_count)
       ELSE Outcome(file, st.added_count, Len(candidates), 0)

(* The value of write_csv is not looked at: added_count is returned        *)
(* whether the save succeeded or not.                                      *)
add_urls_batch(file, candidates, now) ==
    LET data == read_csv(file)
        st == add_candidates([data |-> data,
                              existing_urls |-> {data[i].url : i \in DOMAIN data},
                              added_count |-> 0], candidates, 1, now)
    IN IF \E i \in DOMAIN data : ~HasUrl(data[i])
       THEN Raises(file, "KeyError", 1, 0)
       ELSE IF st.added_count > 0
       THEN Outcome(write_csv(file, st.data).file, st.added_count, 1, 1)
       ELSE Outcome(file, st.added_count, 1, 0)

(* A limit argument: None, or an int *)
NoLimit == [given |-> FALSE, n |-> 0]

Limit(n) == [given |-> TRUE, n |-> n]

(* row.get('status') *)
status_of(row) == IF "status" \in DOMAIN row THEN row.status ELSE "None"

(* [row for row in data if row.get('status') == STATUS_PENDING] *)
pending_rows(data) ==
    SelectSeq(data, LAMBDA row : status_of(row) = STATUS_PENDING)

(* The Python slice s[:n]: the first n items, and for a negative n all but *)
(* the last -n items.                                                      *)
slice_to(s, n) ==
    LET stop == IF n >= 0
                THEN (IF n < Len(s) THEN n ELSE Len(s))
                ELSE (IF Len(s) + n > 0 THEN Len(s) + n ELSE 0)
    IN SubSeq(s, 1, stop)

(* Mutant of get_pending_urls: the limit is not applied.                   *)
get_pending_urls_NoLimit(file, limit) ==
    Outcome(file, pending_rows(read_csv(file)), 1, 0)

(* Mutant of get_pending_urls: FAILED records are queued again.            *)
get_pending_urls_RequeueFailed(file, limit) ==
    LET pending == SelectSeq(read_csv(file),
                             LAMBDA row : status_of(row) \in {STATUS_PENDING, STATUS_FAILED})
    IN Outcome(file, IF limit.given THEN slice_to(pending, limit.n) ELSE pending, 1, 0)

get_pending_urls(file, limit) ==
    LET pending == pending_rows(read_csv(file))
    IN Outcome(file, IF limit.given THEN slice_to(pending, limit.n) ELSE pending, 1, 0)

(* Number of rows of data whose row.get('status', '') is status *)
count_status(data, status) ==
    Cardinality({i \in DOMAIN data : status_of(data[i]) = status})

(* Mutant of get_statistics: every row that is not PENDING counts as a     *)
(* success, and a FAILED row as a failure too.                             *)
get_statistics_Miscount(file) ==
    LET data == read_csv(file)
    IN Outcome(file,
               [total |-> Len(data),
                pending |-> count_status(data, STATUS_PENDING),
                success |-> Len(data) - count_status(data, STATUS_PENDING),
                failed |-> count_status(data, STATUS_FAILED)], 1, 0)

get_statistics(file) ==
    LET data == read_csv(file)
    IN Outcome(file,
               [total |-> Len(data),
                pending |-> count_status(data, STATUS_PENDING),
                success |-> count_status(data, STATUS_SUCCESS),
                failed |-> count_status(data, STATUS_FAILED)], 1, 0)

----------------------------------------------------------------------------
(* Calls of the store *)

StoreUrls == 1..MaxStoreUrls

Lastmods == {"", "2025-01-01"}

Statuses == {STATUS_PENDING, STATUS_SUCCESS, STATUS_FAILED}

(* The candidate lists of add_urls_batch: up to MaxBatch entries, a URL    *)
(* possibly more than once, loc 0 for a missing or empty 'loc'; the        *)
(* entries carry no lastmod ('').                                          *)

RECURSIVE SeqsUpTo(_, _)
SeqsUpTo(S, n) ==
    IF n = 0 THEN {<<>>}
    ELSE LET shorter == SeqsUpTo(S, n - 1)
         IN shorter \cup {Append(q, x) : q \in {t \in shorter : Len(t) = n - 1}, x \in S}

CandidateLists ==
    {[i \in DOMAIN locs |-> [loc |-> locs[i], lastmod |-> lastmod]] :
        locs \in SeqsUpTo(StoreUrls \cup {0}, MaxBatch), lastmod \in {""}}

(* The files a call may find: none (first run), or the table left by       *)
(* earlier calls at times up to 0: URL 2 added, then set to FAILED with    *)
(* the retry count raised, nine times.                                     *)
SeedRows ==
    <<[url |-> 2, status |-> STATUS_FAILED, lastmod |-> "2025-01-01",
       created_at |-> -9, updated_at |-> 0, retry_count |-> str(9)]>>

SeedFiles == {NoFile, [NoFile EXCEPT !.exists = TRUE, !.rows = SeedRows]}

(* A store call is made: by a caller that makes up to MaxClock calls on a  *)
(* well-formed file with succeeding I/O ("store"), by one that makes up    *)
(* to MaxFaultyCalls calls under the I/O conditions and on the files of    *)
(* FaultyFiles ("faulty"), or by one that also passes update_url_status    *)
(* strings that are no status ("api").                                     *)
CallAllowed ==
    \/ mode = "store" /\ clock < MaxClock
    \/ mode = "faulty" /\ clock < MaxFaultyCalls
    \/ mode = "api" /\ clock < MaxClock

Finish(name, args, out) ==
    /\ csv' = out.file
    /\ clock' = clock + 1
    /\ last_op' = [name |-> name, args |-> args, ret |-> out.ret,
                   reads |-> out.reads, writes |-> out.writes,
                   raised |-> out.raised]
    /\ UNCHANGED <<mode, engine_vars, run_vars, main_vars, inst>>

AddUrl ==
    /\ CallAllowed
    /\ \E url \in StoreUrls \cup {0}, lastmod \in Lastmods :
         Finish("add_url", <<url, lastmod>>, add_url(csv, url, lastmod, clock + 1))

UpdateUrlStatus ==
    /\ CallAllowed
    /\ \E url \in StoreUrls \cup {0}, status \in Statuses, increment_retry \in BOOLEAN :
         Finish("update_url_status", <<url, status, increment_retry>>,
                update_url_status(csv, url, status, increment_retry, clock + 1))

AddUrlsBatch ==
    /\ CallAllowed
    /\ \E candidates \in CandidateLists :
         Finish("add_urls_batch", <<candidates>>,
                add_urls_batch(csv, candidates, clock + 1))

(* The limits a caller passes: None, or the int the configuration gives    *)
(* (int(os.getenv('DAILY_LIMIT', '200')), any int).                         *)
Limits == {NoLimit} \cup {Limit(n) : n \in -1..MaxLimit}

GetPendingUrls ==
    /\ CallAllowed
    /\ \E limit \in Limits :
         Finish("get_pending_urls", <<limit>>, get_pending_urls(csv, limit))

GetStatistics ==
    /\ CallAllowed
    /\ Finish("get_statistics", <<>>, get_statistics(csv))

StoreInit ==
    /\ mode = "store"
    /\ pc = "idle"
    /\ urls = <<>>
    /\ max_retry = 0
    /\ attempt = 0
    /\ urls_to_retry = <<>>
    /\ final_results = <<>>
    /\ batch_urls = <<>>
    /\ batch_results = <<>>
    /\ calls = <<>>
    /\ n_requests = 0
    /\ n_sleeps = 0
    /\ last_event = "none"
    /\ csv \in SeedFiles
    /\ clock = 0
    /\ last_op = NoOp
    /\ RunIdle
    /\ MainIdle
    /\ inst = <<>>

StoreNext ==
    AddUrl \/ UpdateUrlStatus \/ AddUrlsBatch \/ GetPendingUrls \/ GetStatistics

SpecStore == StoreInit /\ [][StoreNext]_vars

(* update_url_status takes status: str and writes it as it is; a caller    *)
(* of the module can pass any string, such as 'DONE'.                      *)
OtherStatuses == {"DONE"}

UpdateUrlStatusAny ==
    /\ mode = "api"
    /\ CallAllowed
    /\ \E url \in StoreUrls, status \in OtherStatuses, increment_retry \in BOOLEAN :
         Finish("update_url_status", <<url, status, increment_retry>>,
                update_url_status(csv, url, status, increment_retry, clock + 1))

StoreApiInit ==
    /\ mode = "api"
    /\ pc = "idle"
    /\ urls = <<>>
    /\ max_retry = 0
    /\ attempt = 0
    /\ urls_to_retry = <<>>
    /\ final_results = <<>>
    /\ batch_urls = <<>>
    /\ batch_results = <<>>
    /\ calls = <<>>
    /\ n_requests = 0
    /\ n_sleeps = 0
    /\ last_event = "none"
    /\ csv \in SeedFiles
    /\ clock = 0
    /\ last_op = NoOp
    /\ RunIdle
    /\ MainIdle
    /\ inst = <<>>

StoreApiNext == StoreNext \/ UpdateUrlStatusAny

SpecStoreApi == StoreApiInit /\ [][StoreApiNext]_vars

----------------------------------------------------------------------------
(* The indexing API as seen by _execute_batch_request: per submitted URL   *)
(* either no exception or an exception object.                             *)

NoException == [raised |-> FALSE, http |-> FALSE, status |-> 0, json |-> FALSE]

HttpError(status, json) ==
    [raised |-> TRUE, http |-> TRUE, status |-> status, json |-> json]

OtherError == [raised |-> TRUE, http |-> FALSE, status |-> 0, json |-> FALSE]

ApiExceptions == {HttpError(403, TRUE), OtherError}

(* Every kind of failure batch_callback tells apart: the three status      *)
(* codes it labels, another status code, an HttpError whose content is not *)
(* JSON, and an exception that is no HttpError.                            *)
FailureKinds ==
    {HttpError(403, TRUE), HttpError(429, TRUE), HttpError(400, TRUE),
     HttpError(500, TRUE), HttpError(403, FALSE), OtherError}

None == [label |-> "None", text |-> "None", status |-> 0]

(* batch_callback's error_message for an exception *)
ErrorMessage(exception) ==
    IF exception.http /\ exception.json
    THEN [label |-> CASE exception.status = 403 -> "permission (403)"
                      [] exception.status = 429 -> "quota (429)"
                      [] exception.status = 400 -> "bad request (400)"
                      [] OTHER -> "",
          text |-> "error.message", status |-> exception.status]
    ELSE [label |-> "", text |-> "str(exception)", status |-> exception.status]

(* batch_callback: one response handled, results[url] assigned *)
batch_callback(results, request_id, exception) ==
    IF exception.raised
    THEN DictSet(results, request_id, <<FALSE, ErrorMessage(exception)>>)
    ELSE DictSet(results, request_id, <<TRUE, None>>)

(* The orders in which the responses of one batch may be handed to         *)
(* batch_callback: request order, or the reverse of it.                    *)
Arrivals(ws) == {ws, Reverse(ws)}

(* What batch.execute() may deliver for the requests ws: every request     *)
(* gets exactly one response, no exception or one of `exceptions`.         *)
(* Batches longer than `full` are answered uniformly and in request order. *)
ResponsesFor(ws, full, exceptions) ==
    IF Len(ws) <= full
    THEN {[i \in 1..Len(ws) |-> <<order[i], exc[order[i]]>>] :
             order \in Arrivals(ws),
             exc \in [Range(ws) -> {NoException} \cup exceptions]}
    ELSE {[i \in 1..Len(ws) |-> <<ws[i], e>>] :
             e \in {NoException} \cup exceptions}

Responses(ws) == ResponsesFor(ws, MaxUrls, ApiExceptions)

(* "for each response: batch_callback(...)" over resp[lo..hi], in order.   *)
(* The range is split in halves, and the first half compared with itself, *)
(* only to keep TLC's evaluation shallow on a batch of BatchLimit URLs:    *)
(* the responses are still handled one by one from first to last.          *)
RECURSIVE DeliverAll(_, _, _, _)
DeliverAll(results, resp, lo, hi) ==
    IF lo > hi THEN results
    ELSE IF lo = hi THEN batch_callback(results, resp[lo][1], resp[lo][2])
    ELSE LET mid == (lo + hi) \div 2
             left == DeliverAll(results, resp, lo, mid)
         IN IF left = left THEN DeliverAll(left, resp, mid + 1, hi) ELSE left

(* _execute_batch_request when batch.execute() returns *)
_execute_batch_request(ws, resp) == DeliverAll(<<>>, resp, 1, Len(resp))

----------------------------------------------------------------------------
(* submit_urls *)

(* Mutants of HandleResult: the callback also fires for a failure that is  *)
(* going to be retried; every URL of the batch is retried, succeeded or    *)
(* not; a failure is final in the round it happens.                        *)
HandleResult_NotifyRetry(st, url, success, error, att, R) ==
    IF success
    THEN [st EXCEPT !.final = DictSet(@, url, <<TRUE, None, att>>),
                    !.calls = Append(@, <<url, TRUE, None, att>>)]
    ELSE IF att < R
         THEN [st EXCEPT !.next = Append(@, url),
                         !.calls = Append(@, <<url, FALSE, error, att>>)]
         ELSE [st EXCEPT !.final = DictSet(@, url, <<FALSE, error, att>>),
                         !.calls = Append(@, <<url, FALSE, error, att>>)]

(* Mutant of HandleResult: a 403 (no permission) is not retried.           *)
HandleResult_NoRetry403(st, url, success, error, att, R) ==
    IF success
    THEN [st EXCEPT !.final = DictSet(@, url, <<TRUE, None, att>>),
                    !.calls = Append(@, <<url, TRUE, None, att>>)]
    ELSE IF att < R /\ error.status # 403
         THEN [st EXCEPT !.next = Append(@, url)]
         ELSE [st EXCEPT !.final = DictSet(@, url, <<FALSE, error, att>>),
                         !.calls = Append(@, <<url, FALSE, error, att>>)]

(* Mutant of HandleResult: a URL to retry is put at the front of the next  *)
(* working set.                                                            *)
HandleResult_Prepend(st, url, success, error, att, R) ==
    IF success
    THEN [st EXCEPT !.final = DictSet(@, url, <<TRUE, None, att>>),
                    !.calls = Append(@, <<url, TRUE, None, att>>)]
    ELSE IF att < R
         THEN [st EXCEPT !.next = <<url>> \o @]
         ELSE [st EXCEPT !.final = DictSet(@, url, <<FALSE, error, att>>),
                         !.calls = Append(@, <<url, FALSE, error, att>>)]

HandleResult_RetryAll(st, url, success, error, att, R) ==
    IF att < R
    THEN [st EXCEPT !.next = Append(@, url)]
    ELSE [st EXCEPT !.final = DictSet(@, url, <<success, error, att>>),
                    !.calls = Append(@, <<url, success, error, att>>)]

HandleResult_FailFast(st, url, success, error, att, R) ==
    IF success
    THEN [st EXCEPT !.final = DictSet(@, url, <<TRUE, None, att>>),
                    !.calls = Append(@, <<url, TRUE, None, att>>)]
    ELSE [st EXCEPT !.final = DictSet(@, url, <<FALSE, error, att>>),
                    !.calls = Append(@, <<url, FALSE, error, att>>)]

(* One pass of "for url, (success, error) in batch_results.items()":       *)
(* st = [final, next, calls] are final_results, next_retry_urls and the    *)
(* callback invocations so far.                                            *)
HandleResult(st, url, success, error, att, R) ==
    IF success
    THEN [st EXCEPT !.final = DictSet(@, url, <<TRUE, None, att>>),
                    !.calls = Append(@, <<url, TRUE, None, att>>)]
    ELSE IF att < R
         THEN [st EXCEPT !.next = Append(@, url)]
         ELSE [st EXCEPT !.final = DictSet(@, url, <<FALSE, error, att>>),
                         !.calls = Append(@, <<url, FALSE, error, att>>)]

(* The whole for loop over results[lo..hi], in order (split in halves as   *)
(* in DeliverAll).                                                         *)
RECURSIVE ProcessResults(_, _, _, _, _, _)
ProcessResults(st, results, lo, hi, att, R) ==
    IF lo > hi THEN st
    ELSE IF lo = hi
    THEN HandleResult(st, results[lo][1], results[lo][2][1], results[lo][2][2], att, R)
    ELSE LET mid == (lo + hi) \div 2
             left == ProcessResults(st, results, lo, mid, att, R)
         IN IF left = left
            THEN ProcessResults(left, results, mid + 1, hi, att, R)
            ELSE left

(* Mutant of Rejects: the upper limit is off by one.                       *)
Rejects_OffByOne(us) == us = <<>> \/ Len(us) >= BatchLimit

(* The size checks before the loop *)
Rejects(us) == us = <<>> \/ Len(us) > BatchLimit

(* Mutant of LoopCondition: rounds go on when nothing is left to retry.    *)
LoopCondition_IgnoreEmpty == attempt < max_retry

(* Mutant of LoopCondition: the first round is made whatever max_retry is. *)
LoopCondition_AtLeastOnce ==
    urls_to_retry # <<>> /\ (attempt < max_retry \/ attempt = 0)

(* The while condition *)
LoopCondition == urls_to_retry # <<>> /\ attempt < max_retry

(* Mutant of SleepCondition: the pause is taken whenever attempts remain,  *)
(* whether or not anything is left to retry.                               *)
SleepCondition_IgnoreEmpty(next, att, R) == att < R

(* The sleep condition at the end of a round *)
SleepCondition(next, att, R) == next # <<>> /\ att < R

Validate ==
    /\ pc = "start"
    /\ IF Rejects(urls)
       THEN /\ pc' = "rejected"
            /\ last_event' = "raise ValueError"
            /\ UNCHANGED <<final_results, urls_to_retry, attempt>>
       ELSE /\ pc' = "loop"
            /\ final_results' = <<>>
            /\ urls_to_retry' = urls
            /\ attempt' = 0
            /\ last_event' = "validated"
    /\ UNCHANGED <<mode, urls, max_retry, batch_urls, batch_results, calls,
                   n_requests, n_sleeps, store_vars, run_vars, main_vars, inst>>

(* Mutant of Round: the attempt counter is never advanced.                 *)
Round_NoCount ==
    /\ pc = "loop"
    /\ LoopCondition
    /\ \E resp \in Responses(urls_to_retry) :
         LET att == attempt + 1
             results == _execute_batch_request(urls_to_retry, resp)
             st == ProcessResults([final |-> final_results, next |-> <<>>,
                                   calls |-> calls], results, 1, Len(results),
                                  att, max_retry)
         IN /\ attempt' = attempt
            /\ batch_urls' = urls_to_retry
            /\ batch_results' = results
            /\ n_requests' = n_requests + 1
            /\ final_results' = st.final
            /\ calls' = st.calls
            /\ urls_to_retry' = st.next
            /\ IF SleepCondition(st.next, att, max_retry)
               THEN n_sleeps' = n_sleeps + 1 /\ last_event' = "sleep"
               ELSE n_sleeps' = n_sleeps /\ last_event' = "request"
    /\ UNCHANGED <<mode, pc, urls, max_retry, store_vars, run_vars, main_vars, inst>>

Round ==
    /\ pc = "loop"
    /\ LoopCondition
    /\ \E resp \in Responses(urls_to_retry) :
         LET att == attempt + 1
             results == _execute_batch_request(urls_to_retry, resp)
             st == ProcessResults([final |-> final_results, next |-> <<>>,
                                   calls |-> calls], results, 1, Len(results),
                                  att, max_retry)
         IN /\ attempt' = att
            /\ batch_urls' = urls_to_retry
            /\ batch_results' = results
            /\ n_requests' = n_requests + 1
            /\ final_results' = st.final
            /\ calls' = st.calls
            /\ urls_to_retry' = st.next
            /\ IF SleepCondition(st.next, att, max_retry)
               THEN n_sleeps' = n_sleeps + 1 /\ last_event' = "sleep"
               ELSE n_sleeps' = n_sleeps /\ last_event' = "request"
    /\ UNCHANGED <<mode, pc, urls, max_retry, store_vars, run_vars, main_vars, inst>>

(* batch.execute() raises (transport failure): the exception leaves        *)
(* _execute_batch_request and submit_urls.                                 *)
BatchRaises ==
    /\ pc = "loop"
    /\ LoopCondition
    /\ attempt' = attempt + 1
    /\ batch_urls' = urls_to_retry
    /\ n_requests' = n_requests + 1
    /\ pc' = "crashed"
    /\ last_event' = "raise"
    /\ UNCHANGED <<mode, urls, max_retry, urls_to_retry, final_results,
                   batch_results, calls, n_sleeps, store_vars, run_vars, main_vars, inst>>

Return ==
    /\ pc = "loop"
    /\ ~LoopCondition
    /\ pc' = "returned"
    /\ last_event' = "return"
    /\ UNCHANGED <<mode, urls, max_retry, attempt, urls_to_retry, final_results,
                   batch_urls, batch_results, calls, n_requests, n_sleeps, store_vars, run_vars, main_vars, inst>>

(* The calls of submit_urls considered: 0..MaxUrls distinct URLs, or a     *)
(* list of exactly BatchLimit or BatchLimit + 1 URLs; max_retry as the     *)
(* configuration may give it, including values below 1.                    *)
EngineInputs ==
    {Iota(n) : n \in 0..MaxUrls} \cup {Iota(BatchLimit), Iota(BatchLimit + 1)}

EngineInit ==
    /\ mode = "engine"
    /\ pc = "start"
    /\ urls \in EngineInputs
    /\ max_retry \in -1..MaxRetry
    /\ attempt = 0
    /\ urls_to_retry = <<>>
    /\ final_results = <<>>
    /\ batch_urls = <<>>
    /\ batch_results = <<>>
    /\ calls = <<>>
    /\ n_requests = 0
    /\ n_sleeps = 0
    /\ last_event = "call"
    /\ csv = NoFile
    /\ clock = 0
    /\ last_op = NoOp
    /\ RunIdle
    /\ MainIdle
    /\ inst = <<>>

EngineNext == Validate \/ Round \/ BatchRaises \/ Return

SpecEngine == EngineInit /\ [][EngineNext]_vars

(* submit_urls runs to its end: no step of it waits for anything, and a    *)
(* round that can start does start (and then either completes or raises).  *)
FairEngine ==
    /\ SpecEngine
    /\ WF_vars(Validate)
    /\ WF_vars(BatchRaises \/ Round)
    /\ WF_vars(Return)

----------------------------------------------------------------------------
(* step5_submit_urls (src/main.py): the PENDING records are drawn, cut     *)
(* into chunks of batch_size, and each chunk is handed to submit_urls with *)
(* on_result as its callback.  The files of a run are well formed and its  *)
(* store I/O succeeds, so update_url_status does not raise in on_result.   *)

(* step5_submit_urls is called by a test harness on its own ("run") or by  *)
(* main ("main").                                                          *)
InRun == mode \in {"run", "main"}

(* Mutant of on_result: a failure is recorded without increment_retry.     *)
on_result_NoIncrement(rs, url, success, error, att) ==
    LET now == rs.clock + 1
        out == IF success
               THEN update_url_status(rs.file, url, STATUS_SUCCESS, FALSE, now)
               ELSE update_url_status(rs.file, url, STATUS_FAILED, FALSE, now)
    IN [file |-> out.file, clock |-> now,
        success_count |-> rs.success_count + (IF success THEN 1 ELSE 0),
        fail_count |-> rs.fail_count + (IF success THEN 0 ELSE 1),
        processed |-> rs.processed + 1,
        last_op |-> [name |-> "update_url_status",
                     args |-> <<url, IF success THEN STATUS_SUCCESS ELSE STATUS_FAILED,
                                ~success>>,
                     ret |-> out.ret, reads |-> out.reads, writes |-> out.writes,
                     raised |-> out.raised]]

(* on_result: rs = [file, clock, success_count, fail_count, processed,     *)
(* last_op] is what the callback reads and writes.                         *)
on_result(rs, url, success, error, att) ==
    LET now == rs.clock + 1
        out == IF success
               THEN update_url_status(rs.file, url, STATUS_SUCCESS, FALSE, now)
               ELSE update_url_status(rs.file, url, STATUS_FAILED, TRUE, now)
    IN [file |-> out.file, clock |-> now,
        success_count |-> rs.success_count + (IF success THEN 1 ELSE 0),
        fail_count |-> rs.fail_count + (IF success THEN 0 ELSE 1),
        processed |-> rs.processed + 1,
        last_op |-> [name |-> "update_url_status",
                     args |-> <<url, IF success THEN STATUS_SUCCESS ELSE STATUS_FAILED,
                                ~success>>,
                     ret |-> out.ret, reads |-> out.reads, writes |-> out.writes,
                     raised |-> out.raised]]

(* The callback invocations cs[lo..hi] of one round, in order (split in    *)
(* halves as in DeliverAll).  The engine reads nothing the callback        *)
(* writes, so the invocations of a round are applied after its loop.       *)
RECURSIVE Notify(_, _, _, _)
Notify(rs, cs, lo, hi) ==
    IF lo > hi THEN rs
    ELSE IF lo = hi THEN on_result(rs, cs[lo][1], cs[lo][2], cs[lo][3], cs[lo][4])
    ELSE LET mid == (lo + hi) \div 2
             left == Notify(rs, cs, lo, mid)
         IN IF left = left THEN Notify(left, cs, mid + 1, hi) ELSE left

(* pending_urls = get_pending_urls(csv_path, limit=config['daily_limit']) *)
(* and the early return when it is empty.                                  *)
RunDraw ==
    /\ InRun
    /\ pc = "step5"
    /\ LET out == get_pending_urls(csv, Limit(daily_limit))
       IN /\ pending_urls' = out.ret
          /\ csv' = out.file
          /\ last_op' = [name |-> "get_pending_urls", args |-> <<Limit(daily_limit)>>,
                         ret |-> out.ret, reads |-> out.reads, writes |-> out.writes,
                         raised |-> out.raised]
          /\ pc' = IF out.ret = <<>> THEN "done" ELSE "chunk"
    /\ chunk_i' = 0
    /\ success_count' = 0
    /\ fail_count' = 0
    /\ processed' = 0
    /\ UNCHANGED <<mode, urls, max_retry, attempt, urls_to_retry, final_results,
                   batch_urls, batch_results, calls, n_requests, n_sleeps,
                   last_event, clock, daily_limit, table0, submitted, main_vars, inst>>

(* batch = pending_urls[i:i + batch_size]; batch_urls = [item['url'] for   *)
(* item in batch], which raises KeyError for a row read from a file        *)
(* without a 'url' column: nothing in step5_submit_urls or main catches    *)
(* it, and the interpreter ends the process with status 1.  Otherwise      *)
(* submit_urls(service, batch_urls, ...) is called.                        *)
RunSubmit ==
    /\ InRun
    /\ pc = "chunk"
    /\ LET total == Len(pending_urls)
           last == IF chunk_i + BatchSize < total THEN chunk_i + BatchSize ELSE total
           items == SubSeq(pending_urls, chunk_i + 1, last)
       IN IF \A k \in DOMAIN items : HasUrl(items[k])
          THEN /\ urls' = [k \in DOMAIN items |-> items[k].url]
               /\ submitted' = Append(submitted, urls')
               /\ pc' = "start"
               /\ last_event' = "call"
               /\ UNCHANGED exit_code
          ELSE /\ pc' = "exited"
               /\ last_event' = "uncaught KeyError"
               /\ exit_code' = 1
               /\ UNCHANGED <<urls, submitted>>
    /\ UNCHANGED <<mode, max_retry, attempt, urls_to_retry, final_results,
                   batch_urls, batch_results, calls, n_requests, n_sleeps,
                   store_vars, daily_limit, pending_urls, chunk_i, success_count,
                   fail_count, processed, table0, main_urls, summary, run_no, inst>>

(* The failures the API answers with in a run (on_result only logs the     *)
(* error text).                                                            *)
RunExceptions == {HttpError(403, TRUE)}

(* One iteration of the while loop of submit_urls with callback=on_result  *)
RunRound ==
    /\ InRun
    /\ pc = "loop"
    /\ LoopCondition
    /\ \E resp \in ResponsesFor(urls_to_retry, MaxRunUrls, RunExceptions) :
         LET att == attempt + 1
             results == _execute_batch_request(urls_to_retry, resp)
             st == ProcessResults([final |-> final_results, next |-> <<>>,
                                   calls |-> calls], results, 1, Len(results),
                                  att, max_retry)
             rs == Notify([file |-> csv, clock |-> clock,
                           success_count |-> success_count,
                           fail_count |-> fail_count,
                           processed |-> processed, last_op |-> last_op],
                          st.calls, Len(calls) + 1, Len(st.calls))
         IN /\ attempt' = att
            /\ batch_urls' = urls_to_retry
            /\ batch_results' = results
            /\ n_requests' = n_requests + 1
            /\ final_results' = st.final
            /\ calls' = st.calls
            /\ urls_to_retry' = st.next
            /\ IF SleepCondition(st.next, att, max_retry)
               THEN n_sleeps' = n_sleeps + 1 /\ last_event' = "sleep"
               ELSE n_sleeps' = n_sleeps /\ last_event' = "request"
            /\ csv' = rs.file
            /\ clock' = rs.clock
            /\ last_op' = rs.last_op
            /\ success_count' = rs.success_count
            /\ fail_count' = rs.fail_count
            /\ processed' = rs.processed
    /\ UNCHANGED <<mode, pc, urls, max_retry, daily_limit, pending_urls, chunk_i,
                   table0, submitted, main_vars, inst>>

(* Mutant of RunChunkDone: an exception of submit_urls ends step 5.        *)
RunChunkDone_Abort ==
    /\ InRun
    /\ pc \in {"returned", "crashed", "rejected"}
    /\ chunk_i' = chunk_i + BatchSize
    /\ IF pc = "crashed"
       THEN pc' = "exited" /\ last_event' = "aborted"
       ELSE IF chunk_i + BatchSize < Len(pending_urls)
       THEN pc' = "chunk" /\ last_event' = "chunk sleep"
       ELSE pc' = "done" /\ last_event' = "step5 return"
    /\ UNCHANGED <<mode, urls, max_retry, attempt, urls_to_retry, final_results,
                   batch_urls, batch_results, calls, n_requests, n_sleeps,
                   store_vars, daily_limit, pending_urls, success_count, fail_count,
                   processed, table0, submitted, main_vars, inst>>

(* submit_urls has returned or raised (the exception is caught and        *)
(* printed); the progress is printed and the for loop goes on: a sleep and *)
(* the next chunk, or "return success_count, fail_count".                  *)
RunChunkDone ==
    /\ InRun
    /\ pc \in {"returned", "crashed", "rejected"}
    /\ chunk_i' = chunk_i + BatchSize
    /\ IF chunk_i + BatchSize < Len(pending_urls)
       THEN pc' = "chunk" /\ last_event' = "chunk sleep"
       ELSE pc' = "done" /\ last_event' = "step5 return"
    /\ UNCHANGED <<mode, urls, max_retry, attempt, urls_to_retry, final_results,
                   batch_urls, batch_results, calls, n_requests, n_sleeps,
                   store_vars, daily_limit, pending_urls, success_count, fail_count,
                   processed, table0, submitted, main_vars, inst>>

(* The tables step 5 finds, as steps 3 and earlier runs leave them: n      *)
(* PENDING records, or records of every status.                            *)
PendingTable(n) == [k \in 1..n |-> new_row(k, "", 0)]

MixedTable ==
    <<[new_row(1, "", -2) EXCEPT !.status = STATUS_SUCCESS, !.updated_at = -1],
      new_row(2, "", -2),
      [new_row(3, "", -2) EXCEPT !.status = STATUS_FAILED, !.updated_at = -1,
                                 !.retry_count = str(1)],
      new_row(4, "", 0)>>

RunTables ==
    {PendingTable(n) : n \in (0..MaxPending) \cup {5, BatchSize + 1}} \cup {MixedTable}

(* config['daily_limit']: any int the environment gives, 200 by default    *)
DailyLimits == (-1..MaxDaily) \cup {BatchSize, DefaultDailyLimit}

RunInit ==
    /\ mode = "run"
    /\ pc = "step5"
    /\ urls = <<>>
    /\ max_retry \in (-1..MaxRetry) \cup {DefaultMaxRetry}
    /\ attempt = 0
    /\ urls_to_retry = <<>>
    /\ final_results = <<>>
    /\ batch_urls = <<>>
    /\ batch_results = <<>>
    /\ calls = <<>>
    /\ n_requests = 0
    /\ n_sleeps = 0
    /\ last_event = "none"
    /\ \E t \in RunTables :
         /\ csv = (IF t = <<>> THEN NoFile ELSE [NoFile EXCEPT !.exists = TRUE, !.rows = t])
         /\ table0 = t
    /\ clock = 0
    /\ last_op = NoOp
    /\ daily_limit \in DailyLimits
    /\ pending_urls = <<>>
    /\ chunk_i = 0
    /\ success_count = 0
    /\ fail_count = 0
    /\ processed = 0
    /\ submitted = <<>>
    /\ MainIdle
    /\ inst = <<>>

RunNext ==
    \/ RunDraw
    \/ RunSubmit
    \/ Validate
    \/ RunRound
    \/ BatchRaises
    \/ Return
    \/ RunChunkDone

SpecRun == RunInit /\ [][RunNext]_vars

----------------------------------------------------------------------------
(* The store under failing I/O and on files it did not write itself *)

(* Mutant of read_csv_call: no try/except around the read.                 *)
read_csv_call_NoCatch(file) ==
    IF file.exists /\ ~file.readable
    THEN Raises(file, "Exception", 1, 0)
    ELSE Outcome(file, read_csv(file), 1, 0)

(* A call of read_csv by a user of the module *)
read_csv_call(file) == Outcome(file, read_csv(file), 1, 0)

(* A call of write_csv by a user of the module *)
write_csv_call(file, data) ==
    LET w == write_csv(file, data) IN Outcome(w.file, w.ok, 0, 1)

ReadCsv ==
    /\ CallAllowed
    /\ Finish("read_csv", <<>>, read_csv_call(csv))

WriteCsv ==
    /\ CallAllowed
    /\ \E n \in 0..MaxStoreUrls :
         Finish("write_csv", <<PendingTable(n)>>, write_csv_call(csv, PendingTable(n)))

(* Files edited outside the program: the 'url' column renamed, so that no  *)
(* row has a 'url' key; a retry_count that is no numeral (10 stands for a  *)
(* character that is not a digit).                                         *)
NoUrlRows ==
    <<[status |-> STATUS_PENDING, lastmod |-> "", created_at |-> 0,
       updated_at |-> 0, retry_count |-> str(0)]>>

BadRetryRows ==
    <<[new_row(1, "", 0) EXCEPT !.retry_count = <<10>>]>>

FaultyTables == {<<>>, SeedRows, PendingTable(MaxStoreUrls), NoUrlRows, BadRetryRows}

FaultyFiles ==
    {[exists |-> t # <<>>, rows |-> t, readable |-> r, writable |-> w, room |-> k] :
        t \in FaultyTables, r \in BOOLEAN, w \in {"yes", "no", "partly"},
        k \in 0..MaxRoom}

FaultyInit ==
    /\ mode = "faulty"
    /\ pc = "idle"
    /\ urls = <<>>
    /\ max_retry = 0
    /\ attempt = 0
    /\ urls_to_retry = <<>>
    /\ final_results = <<>>
    /\ batch_urls = <<>>
    /\ batch_results = <<>>
    /\ calls = <<>>
    /\ n_requests = 0
    /\ n_sleeps = 0
    /\ last_event = "none"
    /\ csv \in FaultyFiles
    /\ clock = 0
    /\ last_op = NoOp
    /\ RunIdle
    /\ MainIdle
    /\ inst = <<>>

FaultyNext == StoreNext \/ ReadCsv \/ WriteCsv

SpecFaulty == FaultyInit /\ [][FaultyNext]_vars

----------------------------------------------------------------------------
(* The sitemap reader (src/src/sitemap.py).  A document is what a sitemap  *)
(* URL answers with: whether requests.get succeeds with status 200, the    *)
(* root of the body ("urlset", "sitemapindex", "malformed" for a body that *)
(* is no XML, "empty" for an empty body), the <url> elements of a urlset   *)
(* as [loc, lastmod] (loc 0: no <loc> text), and the documents at the      *)
(* <sitemap> locations of a sitemapindex.                                  *)

(* download_sitemap returns a body that "if not xml_content" lets through  *)
Downloaded(doc) == doc.fetch /\ doc.root # "empty"

is_sitemap_index(doc) == doc.root = "sitemapindex"

(* parse_sitemap_urls: the <url> elements with a <loc>, in document order; *)
(* none for a body without <url> elements, none when parsing raises.       *)
parse_sitemap_urls(doc) ==
    IF doc.root = "urlset"
    THEN SelectSeq(doc.entries, LAMBDA e : e.loc # 0)
    ELSE <<>>

(* parse_sitemap_index: the documents at the <sitemap><loc> of the index   *)
parse_sitemap_index(doc) == IF doc.root = "sitemapindex" THEN doc.children ELSE <<>>

(* Mutant of extend_from: a child that cannot be downloaded ends the       *)
(* collection with nothing.                                                *)
RECURSIVE extend_from_Abort(_, _, _)
extend_from_Abort(all_urls, sitemaps, i) ==
    IF i > Len(sitemaps) THEN all_urls
    ELSE IF Downloaded(sitemaps[i])
    THEN extend_from_Abort(all_urls \o parse_sitemap_urls(sitemaps[i]), sitemaps, i + 1)
    ELSE <<>>

(* "for idx, sub_sitemap_url in enumerate(sitemap_urls, 1)" from child i   *)
RECURSIVE extend_from(_, _, _)
extend_from(all_urls, sitemaps, i) ==
    IF i > Len(sitemaps) THEN all_urls
    ELSE IF Downloaded(sitemaps[i])
    THEN extend_from(all_urls \o parse_sitemap_urls(sitemaps[i]), sitemaps, i + 1)
    ELSE extend_from(all_urls, sitemaps, i + 1)

get_all_urls_from_sitemap(doc) ==
    IF ~Downloaded(doc) THEN <<>>
    ELSE IF is_sitemap_index(doc)
    THEN extend_from(<<>>, parse_sitemap_index(doc), 1)
    ELSE parse_sitemap_urls(doc)

(* filter_post_urls keeps the post pages.  A loc k >= 1 is the post page   *)
(* "https://blog/k"; a loc below 0 is another page of the blog, such as    *)
(* "https://blog/category/name".                                           *)
filter_post_urls(found) == SelectSeq(found, LAMBDA e : e.loc > 0)

(* get_url_number: the number the URL ends with, 0 when it ends otherwise  *)
get_url_number(url_info) == IF url_info.loc > 0 THEN url_info.loc ELSE 0

(* Mutant of sort_urls_by_number: an entry goes before the entries with    *)
(* the same number.                                                        *)
RECURSIVE sort_urls_by_number_Unstable(_, _)
sort_urls_by_number_Unstable(found, descending) ==
    IF found = <<>> THEN <<>>
    ELSE LET head == sort_urls_by_number_Unstable(SubSeq(found, 1, Len(found) - 1),
                                                  descending)
             x == found[Len(found)]
             Before(y) == IF descending
                          THEN get_url_number(y) > get_url_number(x)
                          ELSE get_url_number(y) < get_url_number(x)
             n == Cardinality({i \in DOMAIN head : Before(head[i])})
         IN SubSeq(head, 1, n) \o <<x>> \o SubSeq(head, n + 1, Len(head))

(* sorted(urls, key=get_url_number, reverse=descending): entries with      *)
(* equal keys keep their order.                                            *)
RECURSIVE sort_urls_by_number(_, _)
sort_urls_by_number(found, descending) ==
    IF found = <<>> THEN <<>>
    ELSE LET head == sort_urls_by_number(SubSeq(found, 1, Len(found) - 1), descending)
             x == found[Len(found)]
             Before(y) == IF descending
                          THEN get_url_number(y) >= get_url_number(x)
                          ELSE get_url_number(y) <= get_url_number(x)
             n == Cardinality({i \in DOMAIN head : Before(head[i])})
         IN SubSeq(head, 1, n) \o <<x>> \o SubSeq(head, n + 1, Len(head))

(* The documents considered: child k of an index lists up to MaxEntries    *)
(* URLs of its own (or has a <url> without <loc>, or the URL of a page     *)
(* that is no post, before one), or is malformed, empty or an index        *)
(* itself, and its download succeeds or fails; an index has up to          *)
(* MaxChildren children.                                                   *)
UrlEntries(k, n) ==
    [j \in 1..n |-> [loc |-> MaxEntries * (k - 1) + j, lastmod |-> ""]]

Bodies(k) ==
    {[root |-> "urlset", entries |-> UrlEntries(k, n), children |-> <<>>] :
        n \in 0..MaxEntries}
    \cup {[root |-> "urlset", children |-> <<>>,
            entries |-> <<[loc |-> l, lastmod |-> ""]>> \o UrlEntries(k, 1)] :
            l \in {0, -k}}
    \cup {[root |-> r, entries |-> <<>>, children |-> <<>>] :
            r \in {"malformed", "empty", "sitemapindex"}}

ChildDocs(k) ==
    {[fetch |-> f, root |-> b.root, entries |-> b.entries, children |-> b.children] :
        f \in BOOLEAN, b \in Bodies(k)}

RECURSIVE ChildLists(_)
ChildLists(n) ==
    IF n = 0 THEN {<<>>}
    ELSE {Append(cs, c) : cs \in ChildLists(n - 1), c \in ChildDocs(n)}

Sitemaps ==
    {[fetch |-> f, root |-> "sitemapindex", entries |-> <<>>, children |-> cs] :
        f \in BOOLEAN, cs \in UNION {ChildLists(n) : n \in 0..MaxChildren}}
    \cup ChildDocs(1)

(* A call of get_all_urls_from_sitemap *)
GetAllUrls ==
    /\ mode = "sitemap"
    /\ pc = "idle"
    /\ \E doc \in Sitemaps :
         last_op' = [name |-> "get_all_urls_from_sitemap", args |-> <<doc>>,
                     ret |-> get_all_urls_from_sitemap(doc), reads |-> 0,
                     writes |-> 0, raised |-> "none"]
    /\ pc' = "returned"
    /\ last_event' = "return"
    /\ UNCHANGED <<mode, urls, max_retry, attempt, urls_to_retry, final_results,
                   batch_urls, batch_results, calls, n_requests, n_sleeps,
                   csv, clock, run_vars, main_vars, inst>>

SitemapInit ==
    /\ mode = "sitemap"
    /\ pc = "idle"
    /\ urls = <<>>
    /\ max_retry = 0
    /\ attempt = 0
    /\ urls_to_retry = <<>>
    /\ final_results = <<>>
    /\ batch_urls = <<>>
    /\ batch_results = <<>>
    /\ calls = <<>>
    /\ n_requests = 0
    /\ n_sleeps = 0
    /\ last_event = "none"
    /\ csv = NoFile
    /\ clock = 0
    /\ last_op = NoOp
    /\ RunIdle
    /\ MainIdle
    /\ inst = <<>>

SitemapNext == GetAllUrls

SpecSitemap == SitemapInit /\ [][SitemapNext]_vars

(* Calls of sort_urls_by_number on lists of up to MaxSort entries: posts   *)
(* 1 and 2, post 1 under a second address with the same number (told       *)
(* apart by lastmod), a page whose URL ends with no number (-1) and an     *)
(* empty loc (0).  The list is sorted, and the result is sorted again.     *)
SortEntries ==
    {[loc |-> l, lastmod |-> ""] : l \in {-1, 0, 1, 2}}
    \cup {[loc |-> 1, lastmod |-> "2025-01-01"]}

SortUrls ==
    /\ mode = "sort"
    /\ pc = "idle"
    /\ \E descending \in BOOLEAN :
         last_op' = [name |-> "sort_urls_by_number", args |-> <<main_urls, descending>>,
                     ret |-> sort_urls_by_number(main_urls, descending), reads |-> 0,
                     writes |-> 0, raised |-> "none"]
    /\ pc' = "sorted"
    /\ last_event' = "return"
    /\ UNCHANGED <<mode, urls, max_retry, attempt, urls_to_retry, final_results,
                   batch_urls, batch_results, calls, n_requests, n_sleeps,
                   csv, clock, run_vars, main_vars, inst>>

SortAgain ==
    /\ mode = "sort"
    /\ pc = "sorted"
    /\ last_op' = [last_op EXCEPT !.args = <<last_op.ret, last_op.args[2]>>,
                                  !.ret = sort_urls_by_number(last_op.ret, last_op.args[2])]
    /\ pc' = "resorted"
    /\ last_event' = "return"
    /\ UNCHANGED <<mode, urls, max_retry, attempt, urls_to_retry, final_results,
                   batch_urls, batch_results, calls, n_requests, n_sleeps,
                   csv, clock, run_vars, main_vars, inst>>

SortInit ==
    /\ mode = "sort"
    /\ pc = "idle"
    /\ urls = <<>>
    /\ max_retry = 0
    /\ attempt = 0
    /\ urls_to_retry = <<>>
    /\ final_results = <<>>
    /\ batch_urls = <<>>
    /\ batch_results = <<>>
    /\ calls = <<>>
    /\ n_requests = 0
    /\ n_sleeps = 0
    /\ last_event = "none"
    /\ csv = NoFile
    /\ clock = 0
    /\ last_op = NoOp
    /\ RunIdle
    /\ main_urls \in SeqsUpTo(SortEntries, MaxSort)
    /\ exit_code = -1
    /\ summary = FALSE
    /\ run_no = 0
    /\ inst = <<>>

SortNext == SortUrls \/ SortAgain

SpecSort == SortInit /\ [][SortNext]_vars

----------------------------------------------------------------------------
(* main (src/main.py): steps 1 to 6 and the exits of the process.  The     *)
(* program is started by a scheduler, up to MaxRuns times on the same      *)
(* tracking file.                                                          *)

(* What main leaves alone outside step 5 *)
main_frame ==
    <<urls, max_retry, attempt, urls_to_retry, final_results, batch_urls,
      batch_results, calls, n_requests, n_sleeps, daily_limit, pending_urls,
      chunk_i, success_count, fail_count, processed, submitted, summary, run_no,
      inst>>

(* Step 1: load_config() returns the configuration, or raises and          *)
(* step1_load_config returns None: sys.exit(1).                            *)
MainConfig ==
    /\ mode = "main"
    /\ pc = "main"
    /\ \E loaded \in BOOLEAN :
         IF loaded
         THEN pc' = "step2" /\ last_event' = "config loaded" /\ UNCHANGED exit_code
         ELSE pc' = "exited" /\ last_event' = "config failed" /\ exit_code' = 1
    /\ UNCHANGED <<mode, store_vars, table0, main_urls, main_frame>>

(* The sitemaps a run finds at SITEMAP_URL: one document, or an index of   *)
(* one document.                                                           *)
MainSitemaps ==
    ChildDocs(1)
    \cup {[fetch |-> TRUE, root |-> "sitemapindex", entries |-> <<>>, children |-> <<c>>] :
            c \in ChildDocs(1)}

(* Step 2: step2_fetch_sitemap returns the post URLs, highest number       *)
(* first, or [] (nothing found, or an exception); on [] sys.exit(0).       *)
MainSitemap ==
    /\ mode = "main"
    /\ pc = "step2"
    /\ \E doc \in MainSitemaps :
         LET all_urls == get_all_urls_from_sitemap(doc)
             sorted_urls == IF all_urls = <<>> THEN <<>>
                            ELSE sort_urls_by_number(filter_post_urls(all_urls), TRUE)
         IN /\ main_urls' = sorted_urls
            /\ IF sorted_urls = <<>>
               THEN pc' = "exited" /\ last_event' = "no urls" /\ exit_code' = 0
               ELSE pc' = "step3" /\ last_event' = "sitemap read" /\ UNCHANGED exit_code
    /\ UNCHANGED <<mode, store_vars, table0, main_frame>>

(* Step 3: add_urls_batch(csv_path, urls); an exception it raises is       *)
(* caught and printed.                                                     *)
MainSync ==
    /\ mode = "main"
    /\ pc = "step3"
    /\ LET out == add_urls_batch(csv, main_urls, clock + 1)
       IN /\ csv' = out.file
          /\ clock' = clock + 1
          /\ last_op' = [name |-> "add_urls_batch", args |-> <<main_urls>>,
                         ret |-> out.ret, reads |-> out.reads, writes |-> out.writes,
                         raised |-> out.raised]
          /\ table0' = read_csv(out.file)
    /\ pc' = "step4"
    /\ last_event' = "synced"
    /\ UNCHANGED <<mode, main_urls, exit_code, main_frame>>

(* Mutant of MainService: the run goes on to step 5 without a service.     *)
MainService_Continue ==
    /\ mode = "main"
    /\ pc = "step4"
    /\ \E created \in BOOLEAN :
         pc' = "step5" /\ last_event' = (IF created THEN "service created"
                                         ELSE "service failed")
    /\ UNCHANGED <<mode, store_vars, table0, main_urls, main_frame, exit_code>>

(* Step 4: create_indexing_service returns the service, or raises and      *)
(* step4_create_api_service returns None: sys.exit(1).                     *)
MainService ==
    /\ mode = "main"
    /\ pc = "step4"
    /\ \E created \in BOOLEAN :
         IF created
         THEN pc' = "step5" /\ last_event' = "service created" /\ UNCHANGED exit_code
         ELSE pc' = "exited" /\ last_event' = "service failed" /\ exit_code' = 1
    /\ UNCHANGED <<mode, store_vars, table0, main_urls, main_frame>>

(* Step 6 after step 5 has returned: print_result_summary, the statistics, *)
(* and main returns (exit status 0).                                       *)
MainSummary ==
    /\ mode = "main"
    /\ pc = "done"
    /\ LET out == get_statistics(csv)
       IN last_op' = [name |-> "get_statistics", args |-> <<>>, ret |-> out.ret,
                      reads |-> out.reads, writes |-> out.writes, raised |-> out.raised]
    /\ summary' = TRUE
    /\ pc' = "exited"
    /\ last_event' = "summary"
    /\ exit_code' = 0
    /\ UNCHANGED <<mode, urls, max_retry, attempt, urls_to_retry, final_results,
                   batch_urls, batch_results, calls, n_requests, n_sleeps, csv, clock,
                   run_vars, main_urls, run_no, inst>>

(* The scheduler starts the program again: a new process on the file the   *)
(* last one left, with the same configuration.                             *)
MainAgain ==
    /\ mode = "main"
    /\ pc = "exited"
    /\ run_no < MaxRuns
    /\ run_no' = run_no + 1
    /\ pc' = "main"
    /\ last_event' = "none"
    /\ urls' = <<>>
    /\ attempt' = 0
    /\ urls_to_retry' = <<>>
    /\ final_results' = <<>>
    /\ batch_urls' = <<>>
    /\ batch_results' = <<>>
    /\ calls' = <<>>
    /\ n_requests' = 0
    /\ n_sleeps' = 0
    /\ pending_urls' = <<>>
    /\ chunk_i' = 0
    /\ success_count' = 0
    /\ fail_count' = 0
    /\ processed' = 0
    /\ table0' = <<>>
    /\ submitted' = <<>>
    /\ main_urls' = <<>>
    /\ exit_code' = -1
    /\ summary' = FALSE
    /\ UNCHANGED <<mode, max_retry, store_vars, daily_limit, inst>>

(* The tracking files the first run finds: none; one that earlier runs     *)
(* left; one whose header has no 'url' column (edited outside the          *)
(* program); one that cannot be written.                                   *)
MainFiles ==
    {NoFile,
     [NoFile EXCEPT !.exists = TRUE, !.rows = SeedRows],
     [NoFile EXCEPT !.exists = TRUE, !.rows = NoUrlRows],
     [NoFile EXCEPT !.exists = TRUE, !.rows = PendingTable(1), !.writable = "no"]}

MainInit ==
    /\ mode = "main"
    /\ pc = "main"
    /\ urls = <<>>
    /\ max_retry \in {1, MaxRetry}
    /\ attempt = 0
    /\ urls_to_retry = <<>>
    /\ final_results = <<>>
    /\ batch_urls = <<>>
    /\ batch_results = <<>>
    /\ calls = <<>>
    /\ n_requests = 0
    /\ n_sleeps = 0
    /\ last_event = "none"
    /\ csv \in MainFiles
    /\ clock = 0
    /\ last_op = NoOp
    /\ daily_limit \in {1, DefaultDailyLimit}
    /\ pending_urls = <<>>
    /\ chunk_i = 0
    /\ success_count = 0
    /\ fail_count = 0
    /\ processed = 0
    /\ table0 = <<>>
    /\ submitted = <<>>
    /\ main_urls = <<>>
    /\ exit_code = -1
    /\ summary = FALSE
    /\ run_no = 1
    /\ inst = <<>>

MainNext ==
    \/ MainConfig
    \/ MainSitemap
    \/ MainSync
    \/ MainService
    \/ RunDraw
    \/ RunSubmit
    \/ Validate
    \/ RunRound
    \/ BatchRaises
    \/ Return
    \/ RunChunkDone
    \/ MainSummary
    \/ MainAgain

SpecMain == MainInit /\ [][MainNext]_vars

(* The runs of a program that finds no tracking file at its first start *)
FreshInit == MainInit /\ csv = NoFile

SpecFresh == FreshInit /\ [][MainNext]_vars

----------------------------------------------------------------------------
(* Up to MaxInstances processes of the program on the same tracking file   *)
(* (numbered so that those whose sitemap listed fewer URLs come first).    *)
(* Nothing in the program locks the file, so the read_csv and the          *)
(* write_csv of one store call are two steps, and steps of another process *)
(* may come between them.  Of a process the store calls are followed:      *)
(* add_urls_batch in step 3, get_pending_urls in step 5, and one           *)
(* update_url_status per URL drawn, with the outcome the engine reports;   *)
(* DAILY_LIMIT is 1.                                                       *)
(* inst[i] = [pc, cand, view, added, drawn, k, status, saved]:             *)
(*   cand    what step 2 returned;                                         *)
(*   view    the file as the read_csv of the current store call found it   *)
(*           (NoFile between calls);                                       *)
(*   added   what add_urls_batch returned;                                 *)
(*   drawn   the URLs get_pending_urls returned, k the next one;           *)
(*   status  the status on_result passes for URL k;                        *)
(*   saved   the update_url_status calls made: url, status, return value.  *)

Instance(cand) ==
    [pc |-> "sync_load", cand |-> cand, view |-> NoFile, added |-> 0,
     drawn |-> <<>>, k |-> 1, status |-> STATUS_PENDING, saved |-> <<>>]

InstanceCandidates ==
    {<<[loc |-> 1, lastmod |-> ""]>>,
     <<[loc |-> 2, lastmod |-> ""], [loc |-> 1, lastmod |-> ""]>>}

two_frame ==
    <<mode, engine_vars, run_vars, main_vars>>

(* Mutant of Loaded: load, change and save are one step on the file as it  *)
(* is when the call saves (as under a lock).                               *)
Loaded_AtSave(view, file) == file

(* The table a store call changes and saves: `data`, which its read_csv    *)
(* returned, and not what the file holds when write_csv runs.              *)
Loaded(view, file) == view

(* add_urls_batch, line 276: data = read_csv(csv_path) *)
SyncLoad(i) ==
    /\ mode = "two"
    /\ inst[i].pc = "sync_load"
    /\ inst' = [inst EXCEPT ![i].view = csv, ![i].pc = "sync_save"]
    /\ UNCHANGED <<two_frame, store_vars>>

(* add_urls_batch, lines 279-317: the loop, write_csv(csv_path, data) *)
SyncSave(i) ==
    /\ mode = "two"
    /\ inst[i].pc = "sync_save"
    /\ LET out == add_urls_batch(Loaded(inst[i].view, csv), inst[i].cand, clock + 1)
       IN /\ csv' = (IF out.writes > 0 THEN out.file ELSE csv)
          /\ last_op' = [name |-> "add_urls_batch", args |-> <<inst[i].cand>>,
                         ret |-> out.ret, reads |-> out.reads, writes |-> out.writes,
                         raised |-> out.raised]
          /\ inst' = [inst EXCEPT ![i].added = out.ret, ![i].view = NoFile,
                                  ![i].pc = "draw"]
    /\ clock' = clock + 1
    /\ UNCHANGED two_frame

(* step5_submit_urls, line 216: get_pending_urls (one read_csv) *)
Draw(i) ==
    /\ mode = "two"
    /\ inst[i].pc = "draw"
    /\ LET out == get_pending_urls(csv, Limit(daily_limit))
           drawn == [k \in DOMAIN out.ret |-> out.ret[k].url]
       IN /\ last_op' = [name |-> "get_pending_urls", args |-> <<Limit(daily_limit)>>,
                         ret |-> out.ret, reads |-> out.reads, writes |-> out.writes,
                         raised |-> out.raised]
          /\ inst' = [inst EXCEPT ![i].drawn = drawn,
                                  ![i].pc = IF drawn = <<>> THEN "done" ELSE "upd_load"]
    /\ UNCHANGED <<two_frame, csv, clock>>

(* on_result, lines 242-251, and update_url_status, line 205:              *)
(* data = read_csv(csv_path)                                               *)
UpdLoad(i) ==
    /\ mode = "two"
    /\ inst[i].pc = "upd_load"
    /\ \E success \in BOOLEAN :
         inst' = [inst EXCEPT ![i].view = csv,
                              ![i].status = IF success THEN STATUS_SUCCESS
                                            ELSE STATUS_FAILED,
                              ![i].pc = "upd_save"]
    /\ UNCHANGED <<two_frame, store_vars>>

(* update_url_status, lines 207-228: the loop, write_csv(csv_path, data) *)
UpdSave(i) ==
    /\ mode = "two"
    /\ inst[i].pc = "upd_save"
    /\ LET me == inst[i]
           url == me.drawn[me.k]
           out == update_url_status(Loaded(me.view, csv), url, me.status,
                                    me.status = STATUS_FAILED, clock + 1)
       IN /\ csv' = (IF out.writes > 0 THEN out.file ELSE csv)
          /\ last_op' = [name |-> "update_url_status",
                         args |-> <<url, me.status, me.status = STATUS_FAILED>>,
                         ret |-> out.ret, reads |-> out.reads, writes |-> out.writes,
                         raised |-> out.raised]
          /\ inst' = [inst EXCEPT
                        ![i].saved = Append(@, [url |-> url, status |-> me.status,
                                                ret |-> out.ret]),
                        ![i].k = @ + 1,
                        ![i].view = NoFile,
                        ![i].pc = IF me.k = Len(me.drawn) THEN "done" ELSE "upd_load"]
    /\ clock' = clock + 1
    /\ UNCHANGED two_frame

TwoInit ==
    /\ mode = "two"
    /\ pc = "idle"
    /\ urls = <<>>
    /\ max_retry = 0
    /\ attempt = 0
    /\ urls_to_retry = <<>>
    /\ final_results = <<>>
    /\ batch_urls = <<>>
    /\ batch_results = <<>>
    /\ calls = <<>>
    /\ n_requests = 0
    /\ n_sleeps = 0
    /\ last_event = "none"
    /\ csv \in {NoFile, [NoFile EXCEPT !.exists = TRUE, !.rows = PendingTable(1)]}
    /\ clock = 0
    /\ last_op = NoOp
    /\ daily_limit = 1
    /\ pending_urls = <<>>
    /\ chunk_i = 0
    /\ success_count = 0
    /\ fail_count = 0
    /\ processed = 0
    /\ table0 = <<>>
    /\ submitted = <<>>
    /\ MainIdle
    /\ \E n \in 1..MaxInstances :
         /\ inst \in [1..n -> {Instance(cand) : cand \in InstanceCandidates}]
         /\ \A i \in 1..(n - 1) : Len(inst[i].cand) <= Len(inst[i + 1].cand)

TwoNext ==
    \E i \in DOMAIN inst :
        \/ SyncLoad(i)
        \/ SyncSave(i)
        \/ Draw(i)
        \/ UpdLoad(i)
        \/ UpdSave(i)

SpecTwo == TwoInit /\ [][TwoNext]_vars

----------------------------------------------------------------------------
(* Properties of submit_urls *)

Accepted == pc \in {"loop", "returned", "crashed"}

CallUrls == [i \in DOMAIN calls |-> calls[i][1]]

Succeeded(results) == {k \in Keys(results) : Get(results, k)[1]}

Failed(results) == {k \in Keys(results) : ~Get(results, k)[1]}

SetMax(S) == CHOOSE m \in S : \A x \in S : x <= m

(* C1: for 1..BatchLimit URLs, max_retry >= 1 and any per-URL outcomes,    *)
(* one call issues at most max_retry batch requests, and it ends: it       *)
(* returns, unless batch.execute() itself raised.                          *)
C1_RetryBound ==
    /\ [](Accepted /\ max_retry >= 1 => n_requests <= max_retry)
    /\ [](pc = "crashed" => last_event = "raise")
    /\ (pc = "loop") ~> (pc \in {"returned", "crashed"})

C1_Witness ==
    /\ pc = "returned"
    /\ max_retry >= 2
    /\ n_requests = max_retry
    /\ Failed(final_results) # {}

(* C2: with max_retry >= 1 and distinct input URLs, no URL is notified     *)
(* twice, a URL is notified exactly when its entry is in the result map    *)
(* (with the same outcome), and on return every input URL has been         *)
(* notified once and has exactly one entry.                                *)
C2_ExactlyOnce ==
    (Accepted /\ max_retry >= 1) =>
        /\ IsDistinct(CallUrls)
        /\ Range(CallUrls) = Keys(final_results)
        /\ Len(final_results) = Len(calls)
        /\ \A i \in DOMAIN calls :
             Get(final_results, calls[i][1]) = <<calls[i][2], calls[i][3], calls[i][4]>>
        /\ pc = "returned" =>
             /\ Keys(final_results) = Range(urls)
             /\ Len(calls) = Len(urls)

C2_Witness ==
    /\ pc = "returned"
    /\ max_retry >= 2
    /\ Len(urls) = MaxUrls
    /\ Succeeded(final_results) # {}
    /\ Failed(final_results) # {}

(* C3: every batch request holds only input URLs and none that already     *)
(* succeeded; the first one holds the input, and each later one holds      *)
(* exactly the URLs that failed in the round before it, each once.         *)
C3_OnlyFailedResubmitted ==
    [][n_requests' = n_requests + 1 =>
          /\ Range(batch_urls') \subseteq Range(urls)
          /\ Range(batch_urls') \cap Succeeded(final_results) = {}
          /\ IsDistinct(batch_urls')
          /\ IF n_requests = 0
             THEN batch_urls' = urls
             ELSE Range(batch_urls') = Failed(batch_results)]_vars

C3_Witness ==
    /\ n_requests >= 2
    /\ batch_urls # <<>>
    /\ Len(batch_urls) < Len(urls)
    /\ Succeeded(final_results) # {}

(* C4: on return the number of batch requests is the number of the round   *)
(* in which the last URL became final, so no request follows the round     *)
(* that empties the working set; if every URL succeeded in round 1 there   *)
(* was one request and no sleep.                                           *)
C4_EarlyExit ==
    (pc = "returned" /\ max_retry >= 1) =>
        /\ n_requests = SetMax({final_results[i][2][3] : i \in DOMAIN final_results})
        /\ (\A i \in DOMAIN final_results :
               final_results[i][2][1] /\ final_results[i][2][3] = 1)
           => (n_requests = 1 /\ n_sleeps = 0)

C4_Witness ==
    /\ pc = "returned"
    /\ max_retry >= 2
    /\ Len(urls) >= 2
    /\ Failed(final_results) = {}
    /\ n_requests = 1
    /\ n_sleeps = 0

(* C5: an empty list or one of more than BatchLimit URLs is rejected with  *)
(* no batch request, no callback and no result; a list of 1..BatchLimit    *)
(* URLs is not rejected.                                                   *)
C5_BatchSize ==
    pc # "start" =>
        IF urls = <<>> \/ Len(urls) > BatchLimit
        THEN /\ pc = "rejected"
             /\ n_requests = 0
             /\ calls = <<>>
             /\ final_results = <<>>
        ELSE Accepted

C5_Witness ==
    /\ pc = "rejected"
    /\ Len(urls) = BatchLimit + 1

----------------------------------------------------------------------------
(* Properties of the state store *)

Rows == read_csv(csv)

RowUrls(data) == [i \in DOMAIN data |-> data[i].url]

(* C7: applying add_urls_batch a second time to the same candidates adds   *)
(* nothing, writes nothing and leaves the file (so the record count) as    *)
(* the first application left it; add_url on a present URL returns False   *)
(* and leaves the file alone.  This is stated of every table a call can   *)
(* find (clock < MaxClock) and every candidate list.                       *)
C7_IdempotentIngestion ==
    clock < MaxClock =>
    /\ \A candidates \in CandidateLists :
         LET first == add_urls_batch(csv, candidates, clock + 1)
             second == add_urls_batch(first.file, candidates, clock + 2)
         IN /\ second.ret = 0
            /\ second.writes = 0
            /\ second.file = first.file
            /\ Len(read_csv(second.file)) = Len(read_csv(first.file))
    /\ \A url \in Range(RowUrls(Rows)), lastmod \in Lastmods :
         LET again == add_url(csv, url, lastmod, clock + 1)
         IN again.ret = FALSE /\ again.writes = 0 /\ again.file = csv

C7_Witness ==
    /\ last_op.name = "add_urls_batch"
    /\ Len(last_op.args[1]) = MaxBatch
    /\ \A i \in DOMAIN last_op.args[1] : last_op.args[1][i].loc \in Range(RowUrls(Rows))
    /\ last_op.ret = 0
    /\ clock = MaxClock
    /\ Len(Rows) > Len(SeedRows)

(* C8: no two records of the file have the same url.                       *)
C8_UrlUniqueness == IsDistinct(RowUrls(Rows))

C8_Witness ==
    /\ last_op.name = "add_urls_batch"
    /\ Len(last_op.args[1]) >= 2
    /\ last_op.args[1][1].loc = last_op.args[1][2].loc
    /\ last_op.ret = 1
    /\ Len(Rows) >= 2

(* C9: add_url and add_urls_batch keep every record of the file as it is   *)
(* and where it is, and every record they append is PENDING with           *)
(* retry_count 0.                                                          *)
C9_AppendOnlyDiscovery ==
    [][last_op'.name \in {"add_url", "add_urls_batch"} =>
          LET old == read_csv(csv)
              new == read_csv(csv')
          IN /\ Len(new) >= Len(old)
             /\ SubSeq(new, 1, Len(old)) = old
             /\ \A i \in (Len(old) + 1)..Len(new) :
                  /\ new[i].status = STATUS_PENDING
                  /\ new[i].retry_count = <<0>>
                  /\ new[i].url \notin Range(RowUrls(old))]_vars

C9_Witness ==
    /\ last_op.name = "add_urls_batch"
    /\ last_op.ret = 1
    /\ \E i \in DOMAIN last_op.args[1], j \in DOMAIN Rows :
         /\ last_op.args[1][i].loc = Rows[j].url
         /\ last_op.args[1][i].lastmod # Rows[j].lastmod
         /\ Rows[j].status = STATUS_FAILED
         /\ Rows[j].retry_count # <<0>>

(* C10: update_url_status on a URL that is not in the table returns False, *)
(* writes nothing and leaves the file as it was (no file stays no file).   *)
C10_UpdateAbsent ==
    [][(/\ last_op'.name = "update_url_status"
        /\ last_op'.args[1] \notin Range(RowUrls(read_csv(csv))))
       => (/\ last_op'.ret = FALSE
           /\ last_op'.writes = 0
           /\ csv' = csv)]_vars

C10_Witness ==
    /\ last_op.name = "update_url_status"
    /\ last_op.ret = FALSE
    /\ last_op.args[1] \in StoreUrls
    /\ Rows # <<>>

(* C11: update_url_status on a URL of the table returns True and changes   *)
(* only that record's status (to the argument), updated_at (to the time of *)
(* the call) and, only with increment_retry, retry_count, which grows by   *)
(* exactly 1; its url, lastmod and created_at, every other record, the     *)
(* number of records and their order stay.                                 *)
C11_UpdateFrame ==
    [][(/\ last_op'.name = "update_url_status"
        /\ last_op'.args[1] \in Range(RowUrls(read_csv(csv))))
       => LET old == read_csv(csv)
              new == read_csv(csv')
              k == CHOOSE i \in DOMAIN old : old[i].url = last_op'.args[1]
          IN /\ last_op'.ret = TRUE
             /\ Len(new) = Len(old)
             /\ \A j \in DOMAIN old : j # k => new[j] = old[j]
             /\ new[k].url = old[k].url
             /\ new[k].lastmod = old[k].lastmod
             /\ new[k].created_at = old[k].created_at
             /\ new[k].status = last_op'.args[2]
             /\ new[k].updated_at = clock'
             /\ IF last_op'.args[3]
                THEN /\ IsDecimal(new[k].retry_count)
                     /\ int(new[k].retry_count) = int(old[k].retry_count) + 1
                ELSE new[k].retry_count = old[k].retry_count]_vars

C11_Witness ==
    /\ last_op.name = "update_url_status"
    /\ last_op.ret = TRUE
    /\ last_op.args[3]
    /\ Len(Rows) >= 2
    /\ \E i \in DOMAIN Rows :
         /\ Rows[i].url = last_op.args[1]
         /\ Rows[i].retry_count = <<1, 0>>
         /\ Rows[i].updated_at > Rows[i].created_at

(* The PENDING rows of a table, in stored order *)
RECURSIVE PendingOf(_)
PendingOf(data) ==
    IF data = <<>> THEN <<>>
    ELSE IF Head(data).status = STATUS_PENDING
    THEN <<Head(data)>> \o PendingOf(Tail(data))
    ELSE PendingOf(Tail(data))

(* C12: get_pending_urls with limit=N returns at most N records (none for  *)
(* an N below 0), all PENDING, namely the first N PENDING records in       *)
(* stored order; with limit=None all PENDING records in stored order; and  *)
(* it writes nothing.                                                      *)
C12_PendingCap ==
    last_op.name = "get_pending_urls" =>
        LET limit == last_op.args[1]
            got == last_op.ret
            pending == PendingOf(Rows)
            cap == IF limit.n < 0 THEN 0 ELSE limit.n
        IN /\ last_op.writes = 0
           /\ \A i \in DOMAIN got : got[i].status = STATUS_PENDING
           /\ IF limit.given
              THEN /\ Len(got) <= cap
                   /\ got = SubSeq(pending, 1,
                                   IF cap < Len(pending) THEN cap ELSE Len(pending))
              ELSE got = pending

(* C13: get_statistics returns total = the number of records and, for each *)
(* status, the number of records with it; and total is the sum of the      *)
(* three counts in every state the store calls reach.                      *)
C13_Statistics ==
    LET With(status) == Cardinality({i \in DOMAIN Rows : Rows[i].status = status})
        stats == get_statistics(csv).ret
    IN /\ last_op.name = "get_statistics" =>
            /\ last_op.ret.total = Len(Rows)
            /\ last_op.ret.pending = With(STATUS_PENDING)
            /\ last_op.ret.success = With(STATUS_SUCCESS)
            /\ last_op.ret.failed = With(STATUS_FAILED)
            /\ last_op.writes = 0
       /\ stats.total = stats.pending + stats.success + stats.failed

C13_Witness ==
    /\ last_op.name = "get_statistics"
    /\ last_op.ret.total >= 2
    /\ last_op.ret.failed >= 1
    /\ last_op.ret.pending >= 1

----------------------------------------------------------------------------
(* Properties of step5_submit_urls *)

(* The URLs handed to submit_urls so far, chunk after chunk *)
RECURSIVE Flatten(_)
Flatten(ss) ==
    IF ss = <<>> THEN <<>>
    ELSE Flatten(SubSeq(ss, 1, Len(ss) - 1)) \o ss[Len(ss)]

(* The row of a URL in a table *)
RowOf(data, url) == CHOOSE i \in DOMAIN data : data[i].url = url

IsPending(data, i) == data[i].status = STATUS_PENDING

(* The notifications of a URL *)
CallsOf(url) == {i \in DOMAIN calls : calls[i][1] = url}

(* C14: in one run the URLs handed to the engine are distinct, at most     *)
(* daily_limit of them (none for a limit below 0), and they are the first  *)
(* daily_limit PENDING records of the table in stored order, handed over   *)
(* in consecutive chunks of 1..100 URLs; no call is rejected for its size. *)
C14_DailyLimit ==
    mode = "run" =>
        LET drawn == Flatten(submitted)
            cap == IF daily_limit < 0 THEN 0 ELSE daily_limit
            idx(k) == RowOf(table0, drawn[k])
            n_pending == Cardinality({i \in DOMAIN table0 : IsPending(table0, i)})
        IN /\ pc # "rejected"
           /\ \A c \in DOMAIN submitted :
                Len(submitted[c]) >= 1 /\ Len(submitted[c]) <= BatchLimit
           /\ Cardinality(Range(drawn)) <= cap
           /\ IsDistinct(drawn)
           /\ \A k \in DOMAIN drawn :
                /\ drawn[k] \in Range(RowUrls(table0))
                /\ IsPending(table0, idx(k))
                /\ k < Len(drawn) => idx(k) < idx(k + 1)
           /\ drawn # <<>> =>
                Cardinality({i \in 1..idx(Len(drawn)) : IsPending(table0, i)}) = Len(drawn)
           /\ pc = "done" =>
                Len(drawn) = (IF cap < n_pending THEN cap ELSE n_pending)

(* C15: every URL notified as succeeded is SUCCESS with the retry_count it *)
(* had, every URL notified as failed is FAILED with retry_count one        *)
(* higher, and every record that was not drawn has the status and          *)
(* retry_count it had; the table keeps its records and their order.        *)
C15_ResultsWrittenBack ==
    mode = "run" =>
        /\ RowUrls(Rows) = RowUrls(table0)
        /\ \A i \in DOMAIN table0 :
             LET url == table0[i].url
             IN /\ (\E c \in CallsOf(url) : calls[c][2]) =>
                     /\ Rows[i].status = STATUS_SUCCESS
                     /\ Rows[i].retry_count = table0[i].retry_count
                /\ (\E c \in CallsOf(url) : ~calls[c][2]) =>
                     /\ Rows[i].status = STATUS_FAILED
                     /\ int(Rows[i].retry_count) = int(table0[i].retry_count) + 1
                /\ url \notin Range(Flatten(submitted)) =>
                     /\ Rows[i].status = table0[i].status
                     /\ Rows[i].retry_count = table0[i].retry_count

C15_Witness ==
    /\ mode = "run"
    /\ pc = "done"
    /\ table0 = MixedTable
    /\ \E c, d \in DOMAIN calls : calls[c][2] /\ ~calls[d][2]
    /\ \E i \in DOMAIN Rows :
         Rows[i].status = STATUS_FAILED /\ Rows[i].url \notin Range(Flatten(submitted))

(* C16: 5 PENDING URLs, daily_limit = 3, every submitted URL succeeds in   *)
(* round 1: the run ends with the first 3 records SUCCESS, the last 2      *)
(* PENDING, and statistics total 5, pending 2, success 3, failed 0.        *)
C16_Scenario ==
    (/\ mode = "run"
     /\ table0 = PendingTable(5)
     /\ daily_limit = 3
     /\ pc = "done"
     /\ n_requests = 1
     /\ batch_results # <<>>
     /\ \A i \in DOMAIN batch_results : batch_results[i][2][1])
    => /\ [i \in DOMAIN Rows |-> Rows[i].status]
            = <<STATUS_SUCCESS, STATUS_SUCCESS, STATUS_SUCCESS,
                STATUS_PENDING, STATUS_PENDING>>
       /\ RowUrls(Rows) = RowUrls(table0)
       /\ get_statistics(csv).ret = [total |-> 5, pending |-> 2, success |-> 3, failed |-> 0]

C16_Witness ==
    /\ mode = "run"
    /\ table0 = PendingTable(5)
    /\ daily_limit = 3
    /\ pc = "done"
    /\ n_requests = 1
    /\ success_count = 3
    /\ Len(batch_results) = 3

(* C17: a URL that is still failing in round R = max_retry of an engine    *)
(* call (so it failed in every round) is FAILED after that round, its      *)
(* retry_count is one above what it was before the call, and it has been   *)
(* notified exactly once, with attempt R.                                  *)
C17_FailEveryRound ==
    [][(/\ mode = "run"
        /\ n_requests' = n_requests + 1
        /\ pc' = "loop"
        /\ attempt' = max_retry)
       => \A i \in DOMAIN batch_results' :
            ~batch_results'[i][2][1] =>
                LET url == batch_results'[i][1]
                    new == read_csv(csv')
                    k == RowOf(table0, url)
                IN /\ new[k].url = url
                   /\ new[k].status = STATUS_FAILED
                   /\ int(new[k].retry_count) = int(table0[k].retry_count) + 1
                   /\ Cardinality({c \in DOMAIN calls' : calls'[c][1] = url}) = 1
                   /\ \A c \in DOMAIN calls' :
                        calls'[c][1] = url =>
                            ~calls'[c][2] /\ calls'[c][4] = max_retry]_vars

C17_Witness ==
    /\ mode = "run"
    /\ pc = "done"
    /\ max_retry = DefaultMaxRetry
    /\ Len(table0) = 1
    /\ n_requests = DefaultMaxRetry
    /\ Len(calls) = 1
    /\ ~calls[1][2]
    /\ calls[1][4] = DefaultMaxRetry
    /\ Rows[1].status = STATUS_FAILED
    /\ Rows[1].retry_count = <<1>>

----------------------------------------------------------------------------
(* Properties of the store under failing I/O *)

(* C18: a save replaces the whole table atomically: after a write_csv      *)
(* call, also one that failed partway, read_csv gives the complete         *)
(* previous table or the complete new one.                                 *)
C18_AtomicSave ==
    [][last_op'.name = "write_csv" =>
          read_csv(csv') \in {read_csv(csv), last_op'.args[1]}]_vars

(* C19: read_csv returns the empty table when the file does not exist and  *)
(* when it exists but cannot be read or parsed; it does not raise, and it  *)
(* neither creates nor changes the file.                                   *)
C19_ReadDegrades ==
    [][last_op'.name = "read_csv" =>
          /\ last_op'.raised = "none"
          /\ last_op'.writes = 0
          /\ csv' = csv
          /\ (~csv.exists \/ ~csv.readable) => last_op'.ret = <<>>
          /\ (csv.exists /\ csv.readable) => last_op'.ret = csv.rows]_vars

C19_Witness ==
    /\ last_op.name = "read_csv"
    /\ csv.exists
    /\ ~csv.readable
    /\ csv.rows # <<>>
    /\ last_op.ret = <<>>

(* C20: no store call raises to its caller, whatever the state of the      *)
(* file; a write_csv that cannot write returns False.                      *)
C20_NoRaise ==
    /\ last_op.raised = "none"
    /\ (last_op.name = "write_csv" /\ csv.writable = "no") => last_op.ret = FALSE

----------------------------------------------------------------------------
(* Further properties of the state store *)

(* C21: add_urls_batch loads the file exactly once and saves it at most    *)
(* once, however many candidates it is given: once when at least one       *)
(* record is added (some candidate has a non-empty URL that the file does  *)
(* not hold), not at all when nothing is added or the call raises.         *)
C21_OneLoadOneSave ==
    [][last_op'.name = "add_urls_batch" =>
          LET candidates == last_op'.args[1]
              old == read_csv(csv)
              fresh == {i \in DOMAIN candidates :
                          /\ candidates[i].loc # 0
                          /\ \A j \in DOMAIN old :
                               HasUrl(old[j]) => old[j].url # candidates[i].loc}
          IN /\ last_op'.reads = 1
             /\ IF last_op'.raised = "none"
                THEN /\ (last_op'.ret > 0) = (fresh # {})
                     /\ last_op'.writes = (IF fresh # {} THEN 1 ELSE 0)
                ELSE last_op'.writes = 0]_vars

C21_Witness ==
    /\ last_op.name = "add_urls_batch"
    /\ Len(last_op.args[1]) = MaxBatch
    /\ last_op.raised = "none"
    /\ last_op.ret = MaxBatch
    /\ last_op.reads = 1
    /\ last_op.writes = 1

----------------------------------------------------------------------------
(* Further properties of submit_urls *)

(* An error string made unreadable: None stays None *)
Redacted == [label |-> "redacted", text |-> "redacted", status |-> 0]

ScrubError(error) == IF error = None THEN None ELSE Redacted

ScrubFinal(final) ==
    [i \in DOMAIN final |->
        <<final[i][1], <<final[i][2][1], ScrubError(final[i][2][2]), final[i][2][3]>>>>]

ScrubCalls(cs) ==
    [i \in DOMAIN cs |-> <<cs[i][1], cs[i][2], ScrubError(cs[i][3]), cs[i][4]>>]

(* The responses that arrive in the order of `results` with the same URLs  *)
(* succeeding and failing, the failures of any kinds (of one kind when     *)
(* more than MaxMixed URLs fail).                                          *)
SameOutcomes(results) ==
    LET failing == {i \in DOMAIN results : ~results[i][2][1]}
        kinds == IF Cardinality(failing) <= MaxMixed
                 THEN [failing -> FailureKinds]
                 ELSE {[i \in failing |-> e] : e \in FailureKinds}
    IN {[i \in DOMAIN results |->
            <<results[i][1], IF i \in failing THEN k[i] ELSE NoException>>] :
        k \in kinds}

(* C22: a round of a second call that has so far differed from this one    *)
(* only in error strings, and whose responses arrive in the same order     *)
(* with the same URLs failing but for any other reasons, leaves the same   *)
(* next working set, the same result entries and notifications up to the   *)
(* error strings, and sleeps or not alike; so the two calls issue the same *)
(* batch requests and report the same success flags and attempt numbers.   *)
C22_FailureKindBlind ==
    [][(pc = "loop" /\ pc' = "loop" /\ n_requests' = n_requests + 1) =>
          LET att == attempt + 1
              before == [final |-> ScrubFinal(final_results), next |-> <<>>,
                         calls |-> ScrubCalls(calls)]
              after == [final |-> ScrubFinal(final_results'), next |-> urls_to_retry',
                        calls |-> ScrubCalls(calls')]
              Scrubbed(st) == [final |-> ScrubFinal(st.final), next |-> st.next,
                               calls |-> ScrubCalls(st.calls)]
          IN \A other \in SameOutcomes(batch_results') :
                LET results == _execute_batch_request(urls_to_retry, other)
                    st == ProcessResults(before, results, 1, Len(results),
                                         att, max_retry)
                IN /\ Scrubbed(st) = after
                   /\ SleepCondition(st.next, att, max_retry)
                        = (n_sleeps' = n_sleeps + 1)]_vars

C22_Witness ==
    /\ pc = "returned"
    /\ max_retry >= 2
    /\ n_requests = max_retry
    /\ \E i, j, k \in DOMAIN final_results :
         /\ final_results[i][2][1] /\ final_results[i][2][3] = 2
         /\ ~final_results[j][2][1] /\ final_results[j][2][2].status = 403
         /\ ~final_results[k][2][1] /\ final_results[k][2][2].status = 0

(* C23: one sleep separates every two consecutive rounds and there is no   *)
(* other sleep: after k >= 1 batch requests there have been k - 1 sleeps,  *)
(* or k while the call pauses before request k + 1; a call that ends has   *)
(* slept once less than it has requested; a sleep is taken only when URLs  *)
(* remain and attempts remain, and after it the loop goes on: the call's   *)
(* next step is another batch request.                                     *)
C23_SleepBetweenRounds ==
    /\ [](Accepted =>
            IF n_requests = 0 THEN n_sleeps = 0
            ELSE n_sleeps = n_requests - (IF last_event = "sleep" THEN 0 ELSE 1))
    /\ []((pc \in {"returned", "crashed"} /\ n_requests >= 1)
            => n_sleeps = n_requests - 1)
    /\ [][n_sleeps' # n_sleeps =>
            /\ n_sleeps' = n_sleeps + 1
            /\ n_requests' = n_requests + 1
            /\ urls_to_retry' # <<>>
            /\ attempt' < max_retry
            /\ pc' = "loop"]_vars
    /\ [](last_event = "sleep" => (pc = "loop" /\ LoopCondition))
    /\ [][last_event = "sleep" => n_requests' = n_requests + 1]_vars

C23_Witness ==
    /\ pc = "returned"
    /\ n_requests = MaxRetry
    /\ n_sleeps = MaxRetry - 1
    /\ n_sleeps >= 1
    /\ Succeeded(final_results) # {}

----------------------------------------------------------------------------
(* Further properties of step5_submit_urls *)

(* What the table records of each URL, apart from the time of the update   *)
StoreView(file) ==
    LET data == read_csv(file)
    IN [i \in DOMAIN data |->
           [url |-> data[i].url, status |-> data[i].status,
            lastmod |-> data[i].lastmod, created_at |-> data[i].created_at,
            retry_count |-> data[i].retry_count]]

(* Other orders in which the responses resp could have arrived *)
Rotate(resp) == IF resp = <<>> THEN resp ELSE Tail(resp) \o <<Head(resp)>>

Reorderings(resp) == {Reverse(resp), Rotate(resp), Rotate(Reverse(resp))}

(* C24: in every round of a run the callback is invoked for the URLs that  *)
(* became final in the order their responses arrived, and the next working *)
(* set holds the URLs to retry in that order; and had the same responses   *)
(* arrived in another order, the round would have left the same records    *)
(* (status, retry_count and all but updated_at), the same counters, the    *)
(* same result entries and the same URLs to retry.                         *)
C24_ArrivalOrder ==
    [][(mode = "run" /\ pc = "loop" /\ pc' = "loop" /\ n_requests' = n_requests + 1) =>
          LET arrived == [i \in DOMAIN batch_results' |-> batch_results'[i][1]]
              final_now(url) == Get(batch_results', url)[1] \/ attempt' >= max_retry
              resp == [i \in DOMAIN batch_results' |->
                         <<batch_results'[i][1],
                           IF batch_results'[i][2][1] THEN NoException
                           ELSE HttpError(403, TRUE)>>]
          IN /\ [i \in 1..(Len(calls') - Len(calls)) |-> calls'[Len(calls) + i][1]]
                  = SelectSeq(arrived, final_now)
             /\ urls_to_retry' = SelectSeq(arrived, LAMBDA url : ~final_now(url))
             /\ \A other \in Reorderings(resp) :
                  LET results == _execute_batch_request(urls_to_retry, other)
                      st == ProcessResults([final |-> final_results, next |-> <<>>,
                                            calls |-> calls], results, 1,
                                           Len(results), attempt + 1, max_retry)
                      rs == Notify([file |-> csv, clock |-> clock,
                                    success_count |-> success_count,
                                    fail_count |-> fail_count,
                                    processed |-> processed, last_op |-> last_op],
                                   st.calls, Len(calls) + 1, Len(st.calls))
                  IN /\ StoreView(rs.file) = StoreView(csv')
                     /\ rs.success_count = success_count'
                     /\ rs.fail_count = fail_count'
                     /\ rs.processed = processed'
                     /\ Range(st.final) = Range(final_results')
                     /\ Range(st.next) = Range(urls_to_retry')]_vars

C24_Witness ==
    /\ mode = "run"
    /\ pc = "done"
    /\ n_requests = 2
    /\ Len(batch_urls) = 2
    /\ batch_urls[1] = urls[2]
    /\ Len(calls) = 2
    /\ calls[1][1] = batch_urls[2]
    /\ calls[1][2] /\ ~calls[2][2]

----------------------------------------------------------------------------
(* Properties of the sitemap reader *)

(* The number of entries the first n children of an index contribute       *)
RECURSIVE EntriesBefore(_, _)
EntriesBefore(children, n) ==
    IF n = 0 THEN 0
    ELSE EntriesBefore(children, n - 1)
         + (IF children[n].fetch THEN Len(parse_sitemap_urls(children[n])) ELSE 0)

(* C27: for an index that was downloaded, the result holds, child after    *)
(* child in index order, the entries of every child whose download         *)
(* succeeded, and nothing else: a child whose download failed contributes  *)
(* nothing and the children after it are still read.                       *)
C27_FailedChildSkipped ==
    (/\ last_op.name = "get_all_urls_from_sitemap"
     /\ last_op.args[1].fetch
     /\ last_op.args[1].root = "sitemapindex")
    => LET children == last_op.args[1].children
           got == last_op.ret
       IN /\ Len(got) = EntriesBefore(children, Len(children))
          /\ \A k \in DOMAIN children :
               children[k].fetch =>
                   LET entries == parse_sitemap_urls(children[k])
                   IN SubSeq(got, EntriesBefore(children, k - 1) + 1,
                             EntriesBefore(children, k)) = entries

C27_Witness ==
    /\ last_op.name = "get_all_urls_from_sitemap"
    /\ last_op.args[1].fetch
    /\ last_op.args[1].root = "sitemapindex"
    /\ Len(last_op.args[1].children) = 2
    /\ ~last_op.args[1].children[1].fetch
    /\ last_op.args[1].children[1].entries # <<>>
    /\ last_op.args[1].children[2].fetch
    /\ last_op.ret = last_op.args[1].children[2].entries
    /\ last_op.ret # <<>>

----------------------------------------------------------------------------
(* Properties of the records over sequences of store calls *)

(* C28: every record's retry_count is the numeral of an integer >= 0; a    *)
(* record is created with 0; a store call raises the retry_count of a      *)
(* record by exactly 1 if it is update_url_status on that record's URL     *)
(* with increment_retry=True, and leaves it as it is otherwise, whatever   *)
(* status it sets; so it never decreases.                                  *)
C28_RetryCountMonotone ==
    /\ [](\A i \in DOMAIN Rows :
             IsDecimal(Rows[i].retry_count) /\ int(Rows[i].retry_count) >= 0)
    /\ [][LET old == read_csv(csv)
              new == read_csv(csv')
          IN \A j \in DOMAIN new :
               IF \E i \in DOMAIN old : old[i].url = new[j].url
               THEN LET i == CHOOSE i \in DOMAIN old : old[i].url = new[j].url
                        before == int(old[i].retry_count)
                        after == int(new[j].retry_count)
                    IN IF /\ last_op'.name = "update_url_status"
                          /\ last_op'.args[1] = new[j].url
                          /\ last_op'.args[3]
                       THEN after = before + 1
                       ELSE after = before
               ELSE new[j].retry_count = <<0>>]_vars

C28_Witness ==
    /\ last_op.name = "update_url_status"
    /\ last_op.args[2] \in {STATUS_SUCCESS, STATUS_PENDING}
    /\ ~last_op.args[3]
    /\ last_op.ret = TRUE
    /\ \E i \in DOMAIN Rows :
         /\ Rows[i].url = last_op.args[1]
         /\ Rows[i].retry_count = <<1, 0>>
         /\ Rows[i].status = last_op.args[2]

----------------------------------------------------------------------------
(* Properties of main *)

(* C25: a run that has ended otherwise than by a configuration or          *)
(* authentication failure has printed the final summary (the process       *)
(* prints nothing after its exit), also when the sitemap gave no URL.      *)
C25_AlwaysSummary ==
    (mode = "main" /\ pc = "exited"
        /\ last_event \notin {"config failed", "service failed"}) => summary

(* C26: the exit status is 1 when loading the configuration or creating    *)
(* the API service failed, and 0 in every other case.                      *)
C26_ExitCodes ==
    (mode = "main" /\ pc = "exited") =>
        exit_code = (IF last_event \in {"config failed", "service failed"} THEN 1 ELSE 0)

(* No store I/O fails in the runs on this file: it can be read and         *)
(* written, and it has the columns the program wrote.                      *)
NoStoreFailure ==
    /\ csv.readable
    /\ csv.writable = "yes"
    /\ \A i \in DOMAIN csv.rows : HasUrl(csv.rows[i])

(* C29: over all runs on a file without store I/O failure, every step of   *)
(* every run keeps each SUCCESS or FAILED record with its status and       *)
(* retry_count; the records step 5 draws are PENDING when it queries; and  *)
(* every URL handed to the engine, and every URL of every batch request,   *)
(* is one of those drawn and is PENDING in the file at that moment.        *)
C29_FinalIsFinal ==
    [][(mode = "main" /\ NoStoreFailure) =>
          LET old == read_csv(csv)
              new == read_csv(csv')
              PendingNow(url) ==
                  \E i \in DOMAIN old : old[i].url = url /\ old[i].status = STATUS_PENDING
          IN /\ \A i \in DOMAIN old :
                  old[i].status \in {STATUS_SUCCESS, STATUS_FAILED} =>
                      /\ i \in DOMAIN new
                      /\ new[i].url = old[i].url
                      /\ new[i].status = old[i].status
                      /\ new[i].retry_count = old[i].retry_count
             /\ pending_urls' # pending_urls =>
                  \A k \in DOMAIN pending_urls' : PendingNow(pending_urls'[k].url)
             /\ submitted' # submitted =>
                  \A k \in DOMAIN urls' :
                      /\ PendingNow(urls'[k])
                      /\ \E m \in DOMAIN pending_urls : pending_urls[m].url = urls'[k]
             /\ n_requests' = n_requests + 1 =>
                  \A k \in DOMAIN batch_urls' : PendingNow(batch_urls'[k])]_vars

C29_Witness ==
    /\ mode = "main"
    /\ run_no = 2
    /\ summary
    /\ NoStoreFailure
    /\ submitted = << <<1>> >>
    /\ \E i \in DOMAIN table0 :
         /\ table0[i].url = 2
         /\ table0[i].status = STATUS_FAILED
         /\ table0[i].retry_count = <<1>>
    /\ \E i, j \in DOMAIN Rows :
         /\ Rows[i].url = 2 /\ Rows[i].status = STATUS_FAILED
         /\ Rows[i].retry_count = <<1>>
         /\ Rows[j].url = 1 /\ Rows[j].status = STATUS_SUCCESS

(* C31: a run whose service construction fails has exit code 1, has made   *)
(* no batch request and handed nothing to the engine; its step 3 has kept  *)
(* every record it found as it was and appended only PENDING records with  *)
(* retry_count '0' for URLs of the sitemap, all of them when no store I/O  *)
(* fails; and the failing step 4 leaves the file as step 3 left it.        *)
C31_ServiceFailure ==
    /\ [](mode = "main" /\ last_event = "service failed" =>
            /\ pc = "exited"
            /\ exit_code = 1
            /\ n_requests = 0
            /\ calls = <<>>
            /\ submitted = <<>>
            /\ read_csv(csv) = table0
            /\ NoStoreFailure =>
                 \A k \in DOMAIN main_urls :
                    \E i \in DOMAIN table0 :
                       table0[i].url = main_urls[k].loc)
    /\ [][mode = "main" /\ pc = "step3" =>
            LET old == read_csv(csv)
                new == read_csv(csv')
            IN /\ Len(new) >= Len(old)
               /\ \A i \in DOMAIN old : new[i] = old[i]
               /\ \A i \in (Len(old) + 1)..Len(new) :
                    /\ new[i].status = STATUS_PENDING
                    /\ new[i].retry_count = str(0)
                    /\ \E k \in DOMAIN main_urls : main_urls[k].loc = new[i].url
                    /\ \A j \in DOMAIN old : HasUrl(old[j]) => old[j].url # new[i].url]_vars
    /\ [][mode = "main" /\ pc = "step4" => csv' = csv /\ n_requests' = n_requests]_vars

C31_Witness ==
    /\ mode = "main"
    /\ last_event = "service failed"
    /\ last_op.name = "add_urls_batch"
    /\ last_op.raised = "none"
    /\ last_op.ret = 1
    /\ Len(Rows) = 2
    /\ Rows[1].status = STATUS_FAILED
    /\ Rows[1].retry_count = str(9)
    /\ Rows[2].status = STATUS_PENDING
    /\ Rows[2].created_at = clock

(* The orders of the positions 1..n *)
Orders(n) == {p \in [1..n -> 1..n] : \A i, j \in 1..n : p[i] = p[j] => i = j}

(* C32: the list sort_urls_by_number returns holds the entries of its      *)
(* input, each position used once; the numbers fall (descending) or rise   *)
(* (ascending) along it, an entry whose URL ends with no number counting   *)
(* as 0; entries with the same number stand in their input order; and      *)
(* sorting the result again returns it unchanged.                          *)
C32_StableSort ==
    (mode = "sort" /\ pc \in {"sorted", "resorted"}) =>
        LET found == last_op.args[1]
            descending == last_op.args[2]
            result == last_op.ret
            Number(e) == IF e.loc > 0 THEN e.loc ELSE 0
        IN /\ Len(result) = Len(found)
           /\ \E p \in Orders(Len(found)) :
                /\ \A i \in DOMAIN result : result[i] = found[p[i]]
                /\ \A i, j \in DOMAIN result :
                     i < j =>
                        \/ descending /\ Number(result[i]) > Number(result[j])
                        \/ ~descending /\ Number(result[i]) < Number(result[j])
                        \/ Number(result[i]) = Number(result[j]) /\ p[i] < p[j]
           /\ pc = "resorted" => result = found

C32_Witness ==
    /\ mode = "sort"
    /\ pc = "resorted"
    /\ main_urls = <<[loc |-> 1, lastmod |-> "2025-01-01"], [loc |-> -1, lastmod |-> ""],
                     [loc |-> 1, lastmod |-> ""]>>
    /\ last_op.args[2]
    /\ last_op.ret = <<[loc |-> 1, lastmod |-> "2025-01-01"], [loc |-> 1, lastmod |-> ""],
                       [loc |-> -1, lastmod |-> ""]>>

(* The URLs of the records of a table *)
UrlsOf(data) == {data[j].url : j \in DOMAIN data}

(* Process i has just saved: its last store call wrote the file *)
Saves(i) ==
    /\ inst[i].pc \in {"sync_save", "upd_save"}
    /\ inst'[i].pc # inst[i].pc
    /\ last_op'.writes > 0

(* C33: (a) with one process every table a store call has loaded is the    *)
(* file as it is, and every update_url_status that returned True shows in  *)
(* the file that the next read finds; (b) with several processes a save    *)
(* by process i leaves the table i loaded, with the record i updated       *)
(* changed or the records i added appended: every other record is as i    *)
(* loaded it, whatever the file held when i saved, and a URL that i did    *)
(* not load and did not add is not in the file afterwards.                 *)
C33_SnapshotSave ==
    /\ [](mode = "two" /\ DOMAIN inst = {1} =>
            /\ inst[1].pc \in {"sync_save", "upd_save"} => inst[1].view = csv
            /\ \A m \in DOMAIN inst[1].saved :
                 inst[1].saved[m].ret = TRUE =>
                    \E j \in DOMAIN Rows :
                       /\ Rows[j].url = inst[1].saved[m].url
                       /\ Rows[j].status = inst[1].saved[m].status)
    /\ [][mode = "two" =>
            \A i \in DOMAIN inst :
               Saves(i) =>
                  LET view == read_csv(inst[i].view)
                      new == read_csv(csv')
                      Mine(url) ==
                          IF inst[i].pc = "upd_save"
                          THEN url = inst[i].drawn[inst[i].k]
                          ELSE \E c \in DOMAIN inst[i].cand :
                                  /\ inst[i].cand[c].loc = url
                                  /\ url \notin UrlsOf(view)
                  IN /\ \A j \in DOMAIN new :
                          Mine(new[j].url)
                          \/ (j \in DOMAIN view /\ new[j] = view[j])
                     /\ \A j \in DOMAIN view : j \in DOMAIN new /\ new[j].url = view[j].url
                     /\ \A url \in UrlsOf(Rows) :
                          (url \notin UrlsOf(view) /\ ~Mine(url)) => url \notin UrlsOf(new)]_vars

(* Process 2 added URL 2 and recorded URL 1 as SUCCESS, both returned as   *)
(* done, after process 1 had loaded the table for its own update of URL 1, *)
(* which both had drawn; process 1 then saved: URL 2 is gone and URL 1 is  *)
(* FAILED.                                                                 *)
C33_Witness ==
    /\ mode = "two"
    /\ DOMAIN inst = {1, 2}
    /\ inst[1].drawn = <<1>>
    /\ inst[2].drawn = <<1>>
    /\ inst[2].added = 1
    /\ inst[2].saved = <<[url |-> 1, status |-> STATUS_SUCCESS, ret |-> TRUE]>>
    /\ inst[1].saved = <<[url |-> 1, status |-> STATUS_FAILED, ret |-> TRUE]>>
    /\ UrlsOf(Rows) = {1}
    /\ Rows[1].status = STATUS_FAILED

(* C34: in the runs of a program started without a tracking file, every    *)
(* record has retry_count '0' or '1', and '1' exactly when its status is   *)
(* FAILED.                                                                 *)
C34_RetryZeroOrOne ==
    mode = "main" =>
        \A i \in DOMAIN Rows :
            /\ Rows[i].retry_count \in {str(0), str(1)}
            /\ Rows[i].retry_count = str(1) <=> Rows[i].status = STATUS_FAILED

C34_Witness ==
    /\ mode = "main"
    /\ run_no = 2
    /\ pc = "exited"
    /\ Len(Rows) = 2
    /\ Rows[1].status = STATUS_FAILED
    /\ Rows[1].retry_count = str(1)
    /\ Rows[1].updated_at < Rows[2].updated_at
    /\ Rows[2].status = STATUS_SUCCESS
    /\ Rows[2].retry_count = str(0)

(* The number of records that were PENDING in `before` and have `status`   *)
(* in `after`                                                              *)
Moved(before, after, status) ==
    Cardinality({i \in DOMAIN before :
                    /\ before[i].status = STATUS_PENDING
                    /\ i \in DOMAIN after
                    /\ after[i].status = status})

(* C35: when step 5 returns, success_count and fail_count are the numbers  *)
(* of records the run moved from PENDING to SUCCESS and from PENDING to    *)
(* FAILED in the file.                                                     *)
C35_CountsMatchStore ==
    (mode = "main" /\ pc = "done") =>
        /\ success_count = Moved(table0, Rows, STATUS_SUCCESS)
        /\ fail_count = Moved(table0, Rows, STATUS_FAILED)

(* C36: when the batch request of a round after the first has raised, all  *)
(* notifications for URLs of this call are successes, each of them is      *)
(* SUCCESS in the file, and the counts are the records moved; every URL of *)
(* the working set is PENDING with the retry_count it had and has not been *)
(* notified; and the next step of step 5 is the next chunk or its return,  *)
(* with the file and the counts as they were.                              *)
C36_RaiseInLaterRound ==
    /\ [](mode = "run" /\ pc = "crashed" /\ attempt > 1 =>
            /\ \A c \in DOMAIN calls :
                 calls[c][1] \in Range(urls) =>
                    /\ calls[c][2]
                    /\ Rows[RowOf(Rows, calls[c][1])].status = STATUS_SUCCESS
            /\ success_count = Moved(table0, Rows, STATUS_SUCCESS)
            /\ fail_count = Moved(table0, Rows, STATUS_FAILED)
            /\ \A k \in DOMAIN urls_to_retry :
                 LET i == RowOf(table0, urls_to_retry[k])
                 IN /\ Rows[i].url = urls_to_retry[k]
                    /\ Rows[i].status = STATUS_PENDING
                    /\ Rows[i].retry_count = table0[i].retry_count
                    /\ CallsOf(urls_to_retry[k]) = {})
    /\ [][mode = "run" /\ pc = "crashed" =>
            /\ pc' = (IF chunk_i + BatchSize < Len(pending_urls) THEN "chunk" ELSE "done")
            /\ csv' = csv
            /\ success_count' = success_count
            /\ fail_count' = fail_count]_vars

C36_Witness ==
    /\ mode = "run"
    /\ pc = "crashed"
    /\ attempt = 2
    /\ Len(urls) = 2
    /\ Len(calls) = 1
    /\ Len(urls_to_retry) = 1
    /\ success_count = 1

(* C37: no call of add_url, add_urls_batch, update_url_status,             *)
(* get_pending_urls or get_statistics removes a URL from the file or       *)
(* changes the recorded status of a URL other than the one it was asked to *)
(* update, also when the file exists and cannot be read.                   *)
C37_NeverShrinks ==
    [][last_op'.name \in {"add_url", "add_urls_batch", "update_url_status",
                          "get_pending_urls", "get_statistics"} =>
          \A i \in DOMAIN csv.rows :
             HasUrl(csv.rows[i]) =>
                \E j \in DOMAIN csv'.rows :
                   /\ HasUrl(csv'.rows[j])
                   /\ csv'.rows[j].url = csv.rows[i].url
                   /\ \/ csv'.rows[j].status = csv.rows[i].status
                      \/ /\ last_op'.name = "update_url_status"
                         /\ last_op'.args[1] = csv.rows[i].url]_vars

(* C38: the value add_urls_batch returns is the number of records by which *)
(* the table in the file has grown, also when the save fails.              *)
C38_CountIsGrowth ==
    [][(last_op'.name = "add_urls_batch" /\ last_op'.raised = "none") =>
          last_op'.ret = Len(csv'.rows) - Len(csv.rows)]_vars

(* C39: in a run with max_retry <= 0 no batch request is made, no callback *)
(* is invoked and every submit_urls call returns an empty result map; the  *)
(* file stays as step 5 found it, so every drawn URL is still PENDING, and *)
(* success_count and fail_count are 0.                                     *)
C39_NoRounds ==
    (mode = "run" /\ max_retry <= 0) =>
        /\ n_requests = 0
        /\ calls = <<>>
        /\ final_results = <<>>
        /\ pc # "crashed"
        /\ Rows = table0
        /\ \A k \in DOMAIN pending_urls :
             Rows[RowOf(Rows, pending_urls[k].url)].status = STATUS_PENDING
        /\ success_count = 0
        /\ fail_count = 0

C39_Witness ==
    /\ mode = "run"
    /\ max_retry = 0
    /\ pc = "done"
    /\ Len(pending_urls) = 2
    /\ submitted = << <<1, 2>> >>
    /\ final_results = <<>>
    /\ Rows = PendingTable(2)

====
